---- MODULE Spec2Model ----
(***************************************************************************)
(* A model of the quiz game of src/game.py: the text helpers               *)
(* (_truncate_story, _safe_sample, _normalize_text), the parser of the     *)
(* AI's quiz text (parse_quiz_questions) and the question synthesizer      *)
(* (generate_unique_questions with create_contextual_question).            *)
(*                                                                         *)
(* Python strings are TLA+ strings, handled character by character: TLC    *)
(* evaluates Len, \o and SubSeq on strings.  Python's 0-based indices are  *)
(* 1-based here, and "not found" (-1 in Python) is 0.  The optional spaCy  *)
(* backend is absent (nlp = None, src/game.py:13-16) unless a definition   *)
(* says otherwise.                                                         *)
(***************************************************************************)
EXTENDS Integers, Sequences, FiniteSets, TLC

VARIABLES
    pc,             \* position of the operation under way
    arg,            \* the arguments of the call
    ret,            \* the value the call returned (meaningful once pc = "return")
    questions,      \* generate_unique_questions: the local list `questions`
    used_elements,  \* generate_unique_questions: the local set `used_elements`
    remaining,      \* the shuffled bank's generators not yet iterated over, in order
    calls,          \* how often each generator / the contextual fallback ran
    rng,            \* the state of Python's random module
    game,           \* the game object of the session (games[session_id])
    local,          \* the local variables of the story or quiz operation under way
    hashes,         \* hash(text) of this Python process, for the texts it hashes
    user_progress   \* the highest level in the user's rows of table user_progress, 0 for none

vars == <<pc, arg, ret, questions, used_elements, remaining, calls, rng, game, local, hashes, user_progress>>

(***************************************************************************)
(* Characters and Python's str methods.                                    *)
(***************************************************************************)
LowerAlpha == "abcdefghijklmnopqrstuvwxyz"
UpperAlpha == "ABCDEFGHIJKLMNOPQRSTUVWXYZ"
Digits == "0123456789"

Char(s, i) == SubSeq(s, i, i)

CharsOf(s) == {Char(s, i) : i \in 1..Len(s)}

LowerChars == CharsOf(LowerAlpha)
UpperChars == CharsOf(UpperAlpha)
DigitChars == CharsOf(Digits)

\* \s of the re module, on the characters the model's texts use
SpaceChars == {" ", "\t", "\n"}

\* \w of the re module
WordChars == LowerChars \cup UpperChars \cup DigitChars \cup {"_"}

IsSpace(c) == c \in SpaceChars

IsWordChar(c) == c \in WordChars

\* str.lower() and str.upper() of one character
LowerOf == [i \in 1..26 |-> Char(LowerAlpha, i)]
UpperOf == [i \in 1..26 |-> Char(UpperAlpha, i)]

LowerChar(c) ==
    IF c \in UpperChars THEN LowerOf[CHOOSE i \in 1..26 : UpperOf[i] = c] ELSE c

UpperChar(c) ==
    IF c \in LowerChars THEN UpperOf[CHOOSE i \in 1..26 : LowerOf[i] = c] ELSE c

\* the concatenation of the strings parts[lo..hi], by halves
RECURSIVE Concat(_, _, _)
Concat(parts, lo, hi) ==
    IF lo > hi THEN ""
    ELSE IF lo = hi THEN parts[lo]
    ELSE Concat(parts, lo, (lo + hi) \div 2) \o Concat(parts, (lo + hi) \div 2 + 1, hi)

Lower(s) == Concat([i \in 1..Len(s) |-> LowerChar(Char(s, i))], 1, Len(s))

Upper(s) == Concat([i \in 1..Len(s) |-> UpperChar(Char(s, i))], 1, Len(s))

\* str.lstrip(), str.rstrip(), str.strip()
RECURSIVE LStrip(_)
LStrip(s) ==
    IF Len(s) > 0 /\ IsSpace(Char(s, 1)) THEN LStrip(SubSeq(s, 2, Len(s))) ELSE s

RECURSIVE RStrip(_)
RStrip(s) ==
    IF Len(s) > 0 /\ IsSpace(Char(s, Len(s))) THEN RStrip(SubSeq(s, 1, Len(s) - 1)) ELSE s

Strip(s) == LStrip(RStrip(s))

\* a finite set of positive numbers as an increasing sequence
SortedSeq(S) ==
    IF S = {} THEN <<>>
    ELSE SelectSeq([i \in 1..(CHOOSE p \in S : \A q \in S : q <= p) |-> i],
                   LAMBDA i : i \in S)

\* str.split(): the maximal runs of non-whitespace characters
Split(s) ==
    LET starts == SortedSeq({i \in 1..Len(s) :
                    ~IsSpace(Char(s, i)) /\ (i = 1 \/ IsSpace(Char(s, i - 1)))})
        ends == SortedSeq({i \in 1..Len(s) :
                    ~IsSpace(Char(s, i)) /\ (i = Len(s) \/ IsSpace(Char(s, i + 1)))})
    IN  [k \in 1..Len(starts) |-> SubSeq(s, starts[k], ends[k])]

\* s.split(c) for a single character c
SplitOn(s, c) ==
    LET cuts == <<0>> \o SortedSeq({i \in 1..Len(s) : Char(s, i) = c}) \o <<Len(s) + 1>>
    IN  [k \in 1..(Len(cuts) - 1) |-> SubSeq(s, cuts[k] + 1, cuts[k + 1] - 1)]

\* sep.join(parts)
Join(parts, sep) ==
    Concat([i \in 1..Len(parts) |-> IF i = 1 THEN parts[i] ELSE sep \o parts[i]],
           1, Len(parts))

\* str.startswith / str.endswith / `sub in s`
StartsWith(s, p) == Len(s) >= Len(p) /\ SubSeq(s, 1, Len(p)) = p

EndsWith(s, p) == Len(s) >= Len(p) /\ SubSeq(s, Len(s) - Len(p) + 1, Len(s)) = p

Contains(s, sub) ==
    \E i \in 1..(Len(s) - Len(sub) + 1) : SubSeq(s, i, i + Len(sub) - 1) = sub

\* the largest / smallest number of a non-empty finite set
MaxOf(S) == CHOOSE p \in S : \A q \in S : q <= p

MinOf(S) == CHOOSE p \in S : \A q \in S : p <= q

\* str.rfind(c) for a single character: the last index of c, 0 when absent
RFind(s, c) ==
    LET hits == {i \in 1..Len(s) : Char(s, i) = c}
    IN  IF hits = {} THEN 0 ELSE MaxOf(hits)

\* re.sub(r'[^\w\s]', '', s)
RemovePunct(s) ==
    Concat([i \in 1..Len(s) |->
               IF IsWordChar(Char(s, i)) \/ IsSpace(Char(s, i)) THEN Char(s, i) ELSE ""],
           1, Len(s))

\* re.sub(r'\s+', ' ', s)
CollapseWs(s) ==
    Concat([i \in 1..Len(s) |->
               IF ~IsSpace(Char(s, i)) THEN Char(s, i)
               ELSE IF i > 1 /\ IsSpace(Char(s, i - 1)) THEN "" ELSE " "],
           1, Len(s))

\* the elements of a sequence, and the sequences over a set up to a length
Range(seq) == {seq[i] : i \in 1..Len(seq)}

SeqsUpTo(S, n) == UNION {[1..m -> S] : m \in 0..n}

(***************************************************************************)
(* _truncate_story                                                         *)
(***************************************************************************)
_truncate_story(story, word_limit) ==
    LET words == Split(story) IN
    IF Len(words) <= word_limit THEN story
    ELSE LET truncated == Join(SubSeq(words, 1, word_limit), " ")
             last_period == RFind(truncated, ".")
         IN  IF last_period # 0
             THEN SubSeq(truncated, 1, last_period)
             ELSE truncated \o "..."

(***************************************************************************)
(* Python's random module.  Its generator is the variable rng: a draw is   *)
(* read off the number rng holds, digit by digit (the first digit picks    *)
(* the first item among those left, and so on), so that the numbers below  *)
(* n!/(n-k)! give all the ways to draw k of n items in order.              *)
(***************************************************************************)
RemoveAt(seq, i) == SubSeq(seq, 1, i - 1) \o SubSeq(seq, i + 1, Len(seq))

RECURSIVE DrawFrom(_, _, _)
DrawFrom(seq, k, r) ==
    IF k = 0 THEN <<>>
    ELSE LET i == (r % Len(seq)) + 1 IN
         <<seq[i]>> \o DrawFrom(RemoveAt(seq, i), k - 1, r \div Len(seq))

random_sample(population, k) == DrawFrom(population, k, rng)

random_shuffle(x) == DrawFrom(x, Len(x), rng)

random_choice(seq) == seq[(rng % Len(seq)) + 1]

(***************************************************************************)
(* _safe_sample                                                            *)
(***************************************************************************)
\* [p for p in pool if p and str(p).strip() != ""]
NonBlank(pool) ==
    SelectSeq(pool, LAMBDA p : p # "" /\ \E i \in 1..Len(p) : ~IsSpace(Char(p, i)))

\* [x for x in pool if not (x in seen or seen.add(x))]: the first occurrences
\* among pool[lo..hi], by halves
RECURSIVE Dedupe(_, _, _)
Dedupe(pool, lo, hi) ==
    IF lo > hi THEN <<>>
    ELSE IF lo = hi
    THEN (IF \E j \in 1..(lo - 1) : pool[j] = pool[lo] THEN <<>> ELSE <<pool[lo]>>)
    ELSE Dedupe(pool, lo, (lo + hi) \div 2) \o Dedupe(pool, (lo + hi) \div 2 + 1, hi)

UsablePool(pool) ==
    LET kept == NonBlank(pool) IN
    IF Cardinality(Range(kept)) = Len(kept) THEN kept ELSE Dedupe(kept, 1, Len(kept))

\* a plausible slip: the test `item not in result` is left out
RECURSIVE FillFromFallbackRepeats(_, _, _)
FillFromFallbackRepeats(result, fallback_pool, k) ==
    IF Len(fallback_pool) = 0 \/ Len(result) >= k THEN result
    ELSE FillFromFallbackRepeats(Append(result, Head(fallback_pool)),
                                 Tail(fallback_pool), k)

\* for item in fallback_pool: ... if item not in result: result.append(item)
RECURSIVE FillFromFallback(_, _, _)
FillFromFallback(result, fallback_pool, k) ==
    IF Len(fallback_pool) = 0 \/ Len(result) >= k THEN result
    ELSE FillFromFallback(
            IF Head(fallback_pool) \in Range(result) THEN result
            ELSE Append(result, Head(fallback_pool)),
            Tail(fallback_pool), k)

\* while len(result) < k: result.append("None")
RECURSIVE PadNone(_, _)
PadNone(result, k) ==
    IF Len(result) >= k THEN result ELSE PadNone(Append(result, "None"), k)

\* a plausible slip: the padding loop is left out
_safe_sample_unpadded(pool, k, fallback_pool) ==
    LET usable == UsablePool(pool) IN
    IF Len(usable) >= k THEN random_sample(usable, k)
    ELSE FillFromFallback(usable, fallback_pool, k)

_safe_sample(pool, k, fallback_pool) ==
    LET usable == UsablePool(pool) IN
    IF Len(usable) >= k THEN random_sample(usable, k)
    ELSE PadNone(FillFromFallback(usable, fallback_pool, k), k)

(***************************************************************************)
(* _normalize_text on the rule-based path (nlp is None).  `not txt` is     *)
(* true of None and of the empty string alike; both are "" here.           *)
(***************************************************************************)
StripSuffix(s) ==
    IF EndsWith(s, "ed") THEN SubSeq(s, 1, Len(s) - 2)
    ELSE IF EndsWith(s, "ing") THEN SubSeq(s, 1, Len(s) - 3)
    ELSE s

\* a plausible slip: the two re.sub calls in the other order
_normalize_text_swapped(txt) ==
    IF txt = "" THEN ""
    ELSE StripSuffix(Lower(Strip(RemovePunct(CollapseWs(Strip(txt))))))

_normalize_text(txt) ==
    IF txt = "" THEN ""
    ELSE StripSuffix(Lower(Strip(CollapseWs(RemovePunct(Strip(txt))))))

(***************************************************************************)
(* parse_quiz_questions.  A question record is                             *)
(* [question |-> text, options |-> [letter |-> text], correct |-> letter]. *)
(***************************************************************************)
OptionLetters == {"A", "B", "C", "D"}

\* txt.replace('\r', '').split('\n'); the model's texts hold no '\r'
SplitLines(txt) == SplitOn(txt, "\n")

\* re.match(r'^\s*Question\b', line, re.I)
QuestionStart(line) ==
    LET l == LStrip(line) IN
    /\ Len(l) >= 8
    /\ Lower(SubSeq(l, 1, 8)) = "question"
    /\ (Len(l) = 8 \/ ~IsWordChar(Char(l, 9)))

\* the loop over lines that groups them into blocks
RECURSIVE BuildBlocks(_, _, _)
BuildBlocks(lines, current, blocks) ==
    IF Len(lines) = 0
    THEN (IF Len(current) > 0 THEN Append(blocks, current) ELSE blocks)
    ELSE IF QuestionStart(Head(lines)) /\ Len(current) > 0
         THEN BuildBlocks(Tail(lines), <<Head(lines)>>, Append(blocks, current))
         ELSE BuildBlocks(Tail(lines), Append(current, Head(lines)), blocks)

\* option_re.match(line): <<>> when the line is no option, else
\* <<group(1), group(2)>>.  A line holds no '\n', so '.' matches every
\* character of it; when only whitespace follows the separator the greedy
\* \s* gives its last character back to (.+).
OptionMatch(line) ==
    LET l == LStrip(line)
        afterLetter == LStrip(SubSeq(l, 2, Len(l)))
        afterSep == SubSeq(afterLetter, 2, Len(afterLetter))
    IN  IF /\ Len(l) >= 1
           /\ UpperChar(Char(l, 1)) \in OptionLetters
           /\ Len(afterLetter) >= 1
           /\ Char(afterLetter, 1) \in {")", ".", ":"}
           /\ Len(afterSep) >= 1
        THEN <<Char(l, 1),
               IF LStrip(afterSep) # "" THEN LStrip(afterSep)
               ELSE Char(afterSep, Len(afterSep))>>
        ELSE <<>>

\* [l for l in block if l and l.strip() != '']
RECURSIVE NonBlankLines(_)
NonBlankLines(block) ==
    IF Len(block) = 0 THEN <<>>
    ELSE (IF Head(block) # "" /\ Strip(Head(block)) # "" THEN <<Head(block)>> ELSE <<>>)
         \o NonBlankLines(Tail(block))

\* the index of the first option line of the block, 0 for opt_idx = None
RECURSIVE FirstOptionFrom(_, _)
FirstOptionFrom(b_lines, i) ==
    IF i > Len(b_lines) THEN 0
    ELSE IF OptionMatch(b_lines[i]) # <<>> THEN i
    ELSE FirstOptionFrom(b_lines, i + 1)

FirstOptionIndex(b_lines) == FirstOptionFrom(b_lines, 1)

\* the greedy runs \s* and \d* at the head of a string
RECURSIVE SkipDigits(_)
SkipDigits(s) ==
    IF Len(s) > 0 /\ Char(s, 1) \in DigitChars THEN SkipDigits(SubSeq(s, 2, Len(s))) ELSE s

SkipSeparator(s) ==
    IF Len(s) > 0 /\ Char(s, 1) \in {":", "-"} THEN SubSeq(s, 2, Len(s)) ELSE s

\* a plausible slip: the "Question:" prefix is left on the question text
StripQuestionPrefixKept(question_text) == Strip(question_text)

\* re.sub(r'^\s*Question\s*\d*\s*[:\-]?\s*', '', question_text, flags=re.I).strip()
StripQuestionPrefix(question_text) ==
    LET l == LStrip(question_text) IN
    IF Len(l) >= 8 /\ Lower(SubSeq(l, 1, 8)) = "question"
    THEN Strip(LStrip(SkipSeparator(LStrip(SkipDigits(LStrip(SubSeq(l, 9, Len(l))))))))
    ELSE Strip(question_text)

\* the loop that fills `options`: a later line with the same letter overwrites
RECURSIVE CollectOptions(_, _)
CollectOptions(lines, options) ==
    IF Len(lines) = 0 THEN options
    ELSE LET m == OptionMatch(Head(lines)) IN
         IF m = <<>> THEN CollectOptions(Tail(lines), options)
         ELSE LET key == Upper(m[1])
                  val == CollapseWs(Strip(m[2]))
              IN  CollectOptions(Tail(lines),
                      [k \in DOMAIN options \cup {key} |->
                          IF k = key THEN val ELSE options[k]])

\* are.search(block_text) for the pattern  <literal>\s*[:\-]?\s*([A-D])  with
\* re.I: the letter of the leftmost match, "" when there is none
AnswerAt(block_text, literal, i) ==
    LET rest == LStrip(SkipSeparator(LStrip(
                    SubSeq(block_text, i + Len(literal), Len(block_text)))))
    IN  IF /\ i + Len(literal) - 1 <= Len(block_text)
           /\ LowerChar(Char(block_text, i)) = LowerChar(Char(literal, 1))
           /\ Lower(SubSeq(block_text, i, i + Len(literal) - 1)) = Lower(literal)
           /\ Len(rest) >= 1
           /\ UpperChar(Char(rest, 1)) \in OptionLetters
        THEN Char(rest, 1)
        ELSE ""

AnswerSearch(block_text, literal) ==
    LET hits == {i \in 1..Len(block_text) : AnswerAt(block_text, literal, i) # ""}
    IN  IF hits = {} THEN "" ELSE AnswerAt(block_text, literal, MinOf(hits))

\* answer_re_list, in the order it is tried
AnswerLiterals == <<"Correct Answer", "Correct", "Answer">>

\* a plausible slip: only the first pattern of answer_re_list is tried
CorrectLetterFirstOnly(block_text) == Upper(AnswerSearch(block_text, AnswerLiterals[1]))

\* the loop over answer_re_list: "" for correct_letter = None
CorrectLetter(block_text) ==
    LET first == AnswerSearch(block_text, AnswerLiterals[1])
        second == AnswerSearch(block_text, AnswerLiterals[2])
    IN  IF first # "" THEN Upper(first)
        ELSE IF second # "" THEN Upper(second)
        ELSE Upper(AnswerSearch(block_text, AnswerLiterals[3]))

\* a plausible slip: the count of the options is not checked
BlockAcceptedAnyCount(question_text, options, correct_letter) ==
    /\ question_text # ""
    /\ correct_letter # ""
    /\ correct_letter \in DOMAIN options

\* if question_text and len(options) == 4 and correct_letter and correct_letter in options
BlockAccepted(question_text, options, correct_letter) ==
    /\ question_text # ""
    /\ Cardinality(DOMAIN options) = 4
    /\ correct_letter # ""
    /\ correct_letter \in DOMAIN options

\* the body of `for block in blocks`: the records the block adds to `questions`
BlockRecords(block) ==
    LET b_lines == NonBlankLines(block)
        opt_idx == FirstOptionIndex(b_lines)
    IN  IF Len(b_lines) = 0 \/ opt_idx = 0 THEN <<>>
        ELSE LET question_text ==
                     StripQuestionPrefix(Strip(Join(SubSeq(b_lines, 1, opt_idx - 1), " ")))
                 options == CollectOptions(SubSeq(b_lines, opt_idx, Len(b_lines)), <<>>)
                 correct_letter == CorrectLetter(Join(b_lines, "\n"))
             IN  IF BlockAccepted(question_text, options, correct_letter)
                 THEN <<[question |-> question_text,
                         options |-> options,
                         correct |-> correct_letter]>>
                 ELSE <<>>

RECURSIVE RecordsOfBlocks(_)
RecordsOfBlocks(blocks) ==
    IF Len(blocks) = 0 THEN <<>>
    ELSE BlockRecords(Head(blocks)) \o RecordsOfBlocks(Tail(blocks))

\* [ln.rstrip() for ln in ...]
RStripAll(lines) == [i \in 1..Len(lines) |-> RStrip(lines[i])]

parse_quiz_questions(txt) ==
    IF txt = "" THEN <<>>
    ELSE RecordsOfBlocks(BuildBlocks(RStripAll(SplitLines(txt)), <<>>, <<>>))

(***************************************************************************)
(* generate_unique_questions and create_contextual_question.               *)
(*                                                                         *)
(* The elements map is a record with the keys of extract_story_elements;   *)
(* `has` is the set of keys the map really holds, so that                  *)
(* elements.get(key, default) can tell a missing key from an empty list.   *)
(* Python's None is the text None, which no input holds.  A generator      *)
(* gives [status, qs, used]: status is "question", "none" (it returned     *)
(* None) or "raise" (it raised, and the orchestrator's try/except went     *)
(* on), qs holds the question if there is one, used is used_elements       *)
(* after the call.                                                         *)
(***************************************************************************)
None == "<None>"

Truthy(x) == x # None /\ x # ""

Get(elements, key, default) ==
    IF key \in elements.has THEN elements[key] ELSE default

\* str.title(): a letter is upper-cased after a non-letter, lower-cased
\* after a letter
IsAlpha(c) == c \in LowerChars \/ c \in UpperChars

Title(s) ==
    Concat([i \in 1..Len(s) |->
                IF i = 1 \/ ~IsAlpha(Char(s, i - 1))
                THEN UpperChar(Char(s, i)) ELSE LowerChar(Char(s, i))],
           1, Len(s))

Letters == <<"A", "B", "C", "D">>

\* {chr(65 + i): values[i] for i in range(4)}
LetterDict(values) ==
    [k \in OptionLetters |-> values[CHOOSE i \in 1..4 : Letters[i] = k]]

\* next((k for k, v in opts.items() if test), default): the keys in the
\* order A, B, C, D
FirstKey(hits, default) ==
    IF hits = {} THEN default ELSE Letters[MinOf({i \in 1..4 : Letters[i] \in hits})]

\* list.index(x) of an x the list holds
IndexOf(seq, x) == MinOf({i \in 1..Len(seq) : seq[i] = x})

Question(question, options, correct) ==
    [question |-> question, options |-> options, correct |-> correct]

Produced(q, used) == [status |-> "question", qs |-> <<q>>, used |-> used]

ReturnedNone(used) == [status |-> "none", qs |-> <<>>, used |-> used]

Raised(used) == [status |-> "raise", qs |-> <<>>, used |-> used]

make_mcq(correct_text, decoy_pool, fallback_pool, title_case) ==
    LET wanted == Lower(correct_text)
        decoys == _safe_sample(
                    SelectSeq(decoy_pool, LAMBDA d :
                        d # "" /\ (Len(d) # Len(wanted) \/ Lower(d) # wanted)),
                    3, fallback_pool)
        opts == random_shuffle(<<correct_text>> \o decoys)
        opts_display == [i \in 1..4 |-> IF title_case THEN Title(opts[i]) ELSE opts[i]]
        options == LetterDict(opts_display)
        norm_correct == _normalize_text(correct_text)
        norm == [i \in 1..4 |-> _normalize_text(opts_display[i])]
        hits == {Letters[i] : i \in {j \in 1..4 :
                        \/ norm[j] = norm_correct
                        \/ Contains(norm[j], norm_correct)
                        \/ Contains(norm_correct, norm[j])}}
    IN  [options |-> options,
         correct_key |-> FirstKey(hits, Letters[IndexOf(opts, correct_text)])]

\* q_name
decoy_names ==
    <<"Aarav", "Aditi", "Advik", "Aisha", "Alex", "Anika", "Arjun", "Aryan",
      "Ava", "Benjamin", "Caleb", "Casey", "Charlotte", "Chloe", "Cyrus",
      "Daniel", "David", "Diya", "Elena", "Elijah", "Emily", "Emma", "Ethan",
      "Finn", "Freya", "Gabriel", "Grace", "Harper", "Henry", "Ishan",
      "Isabella", "Jack", "James", "Jasper", "Jordan", "Julian", "Kai",
      "Kavya", "Krish", "Leo", "Liam", "Lily", "Logan", "Lucas", "Luna",
      "Madison", "Mason", "Mateo", "Maya", "Meera", "Mia", "Michael",
      "Morgan", "Nitya", "Noah", "Nora", "Oliver", "Olivia", "Om", "Owen",
      "Penelope", "Priya", "Rahul", "Riley", "River", "Riya", "Rohan",
      "Sage", "Sam", "Samuel", "Shaan", "Siya", "Sofia", "Sophia", "Taylor",
      "Vihaan", "Vivaan", "William", "Wyatt", "Zara", "Zoe">>

\* q_action
decoy_actions ==
    <<"argued", "built", "calculated", "climbed", "cooked", "cried",
      "danced", "decoded", "drew", "dreamed", "escaped", "flew", "laughed",
      "listened", "meditated", "negotiated", "painted", "played",
      "programmed", "ran", "read", "repaired", "sang", "shouted", "slept",
      "studied", "surrendered", "swam", "teleported", "trained", "traveled",
      "waited", "walked", "whispered", "worked", "wrote", "stepped",
      "entered", "invited">>

\* q_object
decoy_objs ==
    <<"amulet", "compass", "crystal", "key", "lantern", "map", "mirror",
      "orb", "potion", "ring", "scroll", "staff", "sword", "talisman",
      "treasure chest", "vial", "wand", "journal", "relic">>

\* q_place
decoy_places ==
    <<"desert", "ocean", "jungle", "space station", "volcano", "swamp",
      "canyon", "meadow", "tundra", "castle", "temple", "city", "laboratory",
      "mansion", "market", "mine", "observatory", "palace", "ruins", "tower",
      "harbor", "factory">>

\* q_sequence
decoy_pool ==
    <<"They found a glowing key", "A ship sailed away",
      "A mysterious letter arrived", "The village celebrated",
      "A bell began to ring", "The sun hid behind clouds",
      "A storm began to brew", "The hero made a plan",
      "A map was discovered", "The door creaked open",
      "A secret was revealed", "They started their journey",
      "A strange sound was heard", "The group took a rest",
      "A decision was made", "An old enemy appeared">>

\* q_not_mentioned
decoy_candidates ==
    <<"spaceship", "glacier", "police station", "motorcycle", "astronaut",
      "market", "jewel", "statue", "bridge", "robot", "scepter",
      "chronometer">>

\* q_inference
decoy_reasons ==
    <<"To find treasure", "To escape danger", "To meet a friend",
      "To learn a secret", "To show off", "By accident",
      "Because they were told to">>

\* create_contextual_question: decoys
opening_decoys ==
    <<"On a stormy night", "Deep within the forest", "It was the silence",
      "In a faraway land", "Long ago, in a kingdom", "No one expected this">>

\* create_contextual_question
possible_not ==
    <<"spaceship", "museum", "robot", "castle", "river", "key", "lantern",
      "dragon", "market">>

\* _action_by_main_character: `if not nlp or not main_character: return None`
_action_by_main_character(story, main_character) == None

q_name(elements, used) ==
    LET names == Get(elements, "names", <<>>) IN
    IF Len(names) = 0 THEN ReturnedNone(used)
    ELSE LET main == names[1] IN
         IF Lower(main) \in used THEN ReturnedNone(used)
         ELSE LET mcq == make_mcq(main, decoy_names, decoy_names, TRUE) IN
              Produced(Question(random_choice(<<
                            "Who is the main character in the story?",
                            "Which character is central to the tale?",
                            "Who does the story follow?",
                            "Which of the following characters appears in the story?">>),
                        mcq.options, mcq.correct_key),
                       used \cup {Lower(main)})

q_action(story, elements, used) ==
    LET actions == Get(elements, "actions", <<>>)
        names == Get(elements, "names", <<None>>)
    IN
    IF Len(actions) = 0 THEN ReturnedNone(used)
    ELSE IF Len(names) = 0 THEN Raised(used)
    ELSE LET main_char == names[1]
             by_main == IF Truthy(main_char)
                        THEN _action_by_main_character(story, main_char) ELSE None
             main_action == IF Truthy(by_main) THEN by_main ELSE actions[1]
         IN
         IF ~Truthy(main_action) THEN ReturnedNone(used)
         ELSE IF Lower(main_action) \in used THEN ReturnedNone(used)
         ELSE LET mcq == make_mcq(main_action, decoy_actions, decoy_actions, TRUE) IN
              Produced(Question(random_choice(<<
                            "What is a key action that takes place in the story?",
                            "Which of these actions is described in the narrative?",
                            "What did someone in the story do?">>),
                        mcq.options, mcq.correct_key),
                       used \cup {Lower(main_action)})

q_object(elements, used) ==
    LET objs == Get(elements, "objects", <<>>) IN
    IF Len(objs) = 0 THEN ReturnedNone(used)
    ELSE LET main_obj == objs[1] IN
         IF Lower(main_obj) \in used THEN ReturnedNone(used)
         ELSE LET mcq == make_mcq(main_obj, decoy_objs, decoy_objs, TRUE) IN
              Produced(Question(random_choice(<<
                            "Which important object is mentioned in the story?",
                            "What item plays a role in the narrative?",
                            "Which of these objects appears in the tale?">>),
                        mcq.options, mcq.correct_key),
                       used \cup {Lower(main_obj)})

q_place(elements, used) ==
    LET places == Get(elements, "places", <<>>) IN
    IF Len(places) = 0 THEN ReturnedNone(used)
    ELSE LET main_place == places[1] IN
         IF Lower(main_place) \in used THEN ReturnedNone(used)
         ELSE LET mcq == make_mcq(main_place, decoy_places, decoy_places, TRUE) IN
              Produced(Question(random_choice(<<
                            "Where does the story take place?",
                            "What is the primary setting of the story?",
                            "Which location is described in the narrative?",
                            "The story is set in which of these locations?",
                            "What is the backdrop for this tale?">>),
                        mcq.options, mcq.correct_key),
                       used \cup {Lower(main_place)})

\* short(p) of q_sequence
short(p) ==
    LET w == Split(p) IN
    Join(SubSeq(w, 1, IF Len(w) < 10 THEN Len(w) ELSE 10), " ")
        \o (IF Len(w) > 10 THEN "..." ELSE "")

q_sequence(elements, used) ==
    LET sents == Get(elements, "sentences", <<>>) IN
    IF Len(sents) < 2 THEN ReturnedNone(used)
    ELSE LET opts_list == <<short(Strip(sents[1])), short(Strip(sents[2]))>>
             decoys == _safe_sample(decoy_pool, 2, decoy_pool)
             options == random_shuffle(opts_list \o decoys)
             hits == {Letters[i] : i \in {j \in 1..4 : options[j] = opts_list[1]}}
         IN  Produced(Question(random_choice(<<
                            "Which of the following happened first in the story?",
                            "What event comes earliest in the narrative?",
                            "How does the story begin?",
                            "Which event marks the start of the story?">>),
                        LetterDict(options), FirstKey(hits, None)),
                      used)

\* a plausible slip: the answer's text where its key is wanted
TrueFalseText(correct_answer) == IF correct_answer THEN "True" ELSE "False"

\* correct_key = 'A' if correct_answer == 'True' else 'B'
TrueFalseKey(correct_answer) == IF correct_answer THEN "A" ELSE "B"

q_true_false(elements, used) ==
    LET names == Get(elements, "names", <<>>)
        objects == Get(elements, "objects", <<None>>)
        actions == Get(elements, "actions", <<None>>)
        story_text == Lower(Join(Get(elements, "story_words", <<>>), " "))
        options == LetterDict(<<"True", "False", "Maybe", "Not stated">>)
    IN
    IF Len(names) = 0 THEN ReturnedNone(used)
    ELSE IF Len(objects) = 0 \/ Len(actions) = 0 THEN Raised(used)
    ELSE LET subj == names[1]
             obj == objects[1]
             action == actions[1]
         IN
         IF Truthy(obj)
         THEN Produced(Question("True or False: " \o subj \o " discovered a " \o obj \o ".",
                                options,
                                TrueFalseKey(Contains(story_text, Lower(obj)))),
                       used)
         ELSE IF Truthy(action)
         THEN Produced(Question("True or False: " \o subj \o " " \o action \o " in the story.",
                                options,
                                TrueFalseKey(Contains(story_text, Lower(action)))),
                       used)
         ELSE ReturnedNone(used)

q_not_mentioned(elements, used) ==
    LET story_text == Lower(Join(Get(elements, "story_words", <<>>), " "))
        mentioned_candidates == Get(elements, "objects", <<>>)
                                    \o Get(elements, "places", <<>>)
                                    \o Get(elements, "names", <<>>)
        mentioned == SelectSeq(mentioned_candidates,
                        LAMBDA m : Truthy(m) /\ Contains(story_text, Lower(m)))
        not_mentioned_pool == SelectSeq(decoy_candidates,
                        LAMBDA d : ~Contains(story_text, Lower(d)))
    IN
    IF Len(not_mentioned_pool) = 0 THEN ReturnedNone(used)
    ELSE LET correct_item == _safe_sample(not_mentioned_pool, 1, decoy_candidates)[1]
             other_pool == SelectSeq(mentioned \o not_mentioned_pool,
                                LAMBDA o : Lower(o) # Lower(correct_item))
             others == _safe_sample(other_pool, 3, decoy_candidates)
             opts == random_shuffle(<<correct_item>> \o others)
             opts_dict == LetterDict([i \in 1..4 |-> Title(opts[i])])
             hits == {k \in OptionLetters : Lower(opts_dict[k]) = Lower(correct_item)}
         IN  Produced(Question(random_choice(<<
                            "Which of the following is NOT mentioned in the story?",
                            "Which item/place/character did the story NOT mention?">>),
                        opts_dict, FirstKey(hits, "A")),
                      used)

\* any(w in reason.lower() for w in ['explor', 'discover', 'find', 'enter', 'step'])
ExploreWords == {"explor", "discover", "find", "enter", "step"}

\* 'because' in s.lower() or 'so that' in s.lower() or 'to' in s.lower()
GivesReason(s) ==
    LET low == Lower(s) IN
    Contains(low, "because") \/ Contains(low, "so that") \/ Contains(low, "to")

q_inference(elements, used) ==
    LET names == Get(elements, "names", <<>>)
        sents == Get(elements, "sentences", <<>>)
        reasons == {i \in 1..Len(sents) : GivesReason(sents[i])}
        reason == IF reasons # {} THEN sents[MinOf(reasons)]
                  ELSE IF Len(sents) > 0 THEN sents[1] ELSE None
        actions == Get(elements, "actions", <<None>>)
    IN
    IF Len(names) = 0 THEN ReturnedNone(used)
    ELSE IF ~Truthy(reason) THEN ReturnedNone(used)
    ELSE IF Len(actions) = 0 THEN Raised(used)
    ELSE IF ~Truthy(actions[1]) THEN ReturnedNone(used)
    ELSE LET subj == names[1]
             correct_reason ==
                IF \E w \in ExploreWords : Contains(Lower(reason), w)
                THEN "To explore" ELSE "Because they had to"
             choices == random_shuffle(
                            <<correct_reason>> \o _safe_sample(decoy_reasons, 3, decoy_reasons))
             hits == {Letters[i] : i \in {j \in 1..4 : choices[j] = correct_reason}}
         IN  Produced(Question(random_choice(<<
                            "Why did " \o subj \o " do what they did in the story?",
                            "What is the most likely reason " \o subj
                                \o " acted as they did?">>),
                        LetterDict(choices), FirstKey(hits, "A")),
                      used)

\* a plausible slip: nothing is asked once the opening phrase is used
ContextualGivesUp(elements, used) == ReturnedNone(used)

\* steps 2-4 of create_contextual_question: the length estimate, "NOT
\* mentioned", the generic True/False
ContextualAfterOpening(elements, used) ==
    LET story_words == Get(elements, "story_words", <<>>)
        story_text_lower == Lower(Join(story_words, " "))
        word_count == Len(story_words)
        not_mentioned == SelectSeq(possible_not,
                            LAMBDA w : ~Contains(story_text_lower, w))
    IN
    IF word_count > 40
    THEN LET ranges == random_shuffle(<<
                    "About " \o ToString(word_count) \o " words",
                    "About " \o ToString(MaxOf({10, word_count - 40})) \o " words",
                    "About " \o ToString(word_count + 30) \o " words",
                    "About " \o ToString(MaxOf({10, word_count + 60})) \o " words">>)
             hits == {Letters[i] : i \in {j \in 1..4 :
                            Contains(ranges[j], ToString(word_count))}}
         IN  Produced(Question("Approximately how long is this story?",
                               LetterDict(ranges), FirstKey(hits, "A")),
                      used)
    ELSE IF Len(not_mentioned) >= 1
    THEN LET correct_choice == _safe_sample(not_mentioned, 1, possible_not)[1]
             other_choices == _safe_sample(
                    SelectSeq(possible_not, LAMBDA w : Lower(w) # Lower(correct_choice)),
                    3, possible_not)
             options == random_shuffle(<<correct_choice>> \o other_choices)
             opts == LetterDict([i \in 1..4 |-> Title(options[i])])
             hits == {k \in OptionLetters : Lower(opts[k]) = Lower(correct_choice)}
         IN  Produced(Question("Which of these is NOT mentioned in the story?",
                               opts, FirstKey(hits, "A")),
                      used)
    ELSE Produced(Question("True or False: The story included a surprising event.",
                           LetterDict(<<"True", "False", "Not stated", "Maybe">>), "A"),
                  used)

\* a plausible slip: the opening phrase is never asked about
ContextualSkipsOpening(story, elements, used) == ContextualAfterOpening(elements, used)

create_contextual_question(story, elements, used) ==
    LET first_sentence == Get(elements, "first_sentence", "")
        words == Split(first_sentence)
        first_phrase == Join(SubSeq(words, 1, IF Len(words) < 4 THEN Len(words) ELSE 4), " ")
    IN
    IF first_sentence # "" /\ Len(words) > 2 /\ Lower(first_phrase) \notin used
    THEN LET choices == random_shuffle(
                            <<first_phrase>> \o _safe_sample(opening_decoys, 3, opening_decoys))
             hits == {Letters[i] : i \in {j \in 1..4 : choices[j] = first_phrase}}
         IN  Produced(Question("Which phrase opens the story?",
                               LetterDict(choices), FirstKey(hits, "A")),
                      used \cup {Lower(first_phrase)})
    ELSE ContextualAfterOpening(elements, used)

\* the clean-up pass over questions[:num_needed]
Cleaned(q) ==
    LET opts == q.options
        keys == SelectSeq(Letters, LAMBDA k : k \in DOMAIN opts)
        vals == [i \in 1..4 |-> IF i <= Len(keys) THEN opts[keys[i]] ELSE "Not stated"]
        fixed == LetterDict(vals)
    IN
    IF Cardinality(DOMAIN opts) # 4
    THEN [q EXCEPT !.options = fixed,
                   !.correct = IF q.correct \in DOMAIN fixed THEN q.correct ELSE "A"]
    ELSE q

CleanUp(qs, num_needed) ==
    LET n == IF Len(qs) < num_needed THEN Len(qs) ELSE num_needed IN
    [i \in 1..n |-> Cleaned(qs[i])]

(***************************************************************************)
(* extract_story_elements on the rule-based path (nlp is None: no PERSON   *)
(* entities and no action words).  list(set(xs)) lists the distinct items  *)
(* of xs in the order of the set's hash table, which the code does not     *)
(* control: that order is the argument h, a draw from the orders.          *)
(***************************************************************************)
OBJECT_WORDS ==
    <<"amulet", "armor", "arrow", "artifact", "bag", "banner", "boat",
      "book", "bow", "box", "bracelet", "bridge", "brooch", "cabinet",
      "carriage", "castle", "cauldron", "cave", "chalice", "chest", "clock",
      "clue", "coin", "compass", "crown", "crystal", "dagger", "datapad",
      "desk", "device", "diary", "door", "dragon", "drone", "drum", "elixir",
      "engine", "envelope", "flute", "forest", "fountain", "gem", "goblet",
      "grimoire", "harp", "helmet", "hologram", "horse", "house", "idol",
      "jetpack", "journal", "key", "knight", "lamp", "lantern", "laser",
      "letter", "locket", "manuscript", "map", "mask", "medallion", "mirror",
      "monster", "mountain", "necklace", "note", "orb", "painting",
      "pendant", "photograph", "plate", "portal", "potion", "relic", "ring",
      "river", "robot", "rope", "runestone", "scepter", "scroll", "shield",
      "ship", "spaceship", "spear", "spellbook", "staff", "statue", "stone",
      "sword", "talisman", "tapestry", "telescope", "throne", "torch",
      "treasure", "tree", "wand", "waterfall", "whistle", "wizard", "bird",
      "cat", "chair", "dog", "flower", "table">>

PLACE_WORDS ==
    <<"academy", "alley", "arena", "asteroid field", "asylum", "beach",
      "bunker", "canyon", "castle", "catacomb", "cathedral", "cave",
      "chamber", "chapel", "citadel", "city", "clearing", "coast", "cottage",
      "courtyard", "crypt", "desert", "dock", "dungeon", "estate", "factory",
      "farm", "field", "forest", "fortress", "galaxy", "garden", "glade",
      "harbor", "headquarters", "hill", "hospital", "house", "island",
      "jungle", "kingdom", "laboratory", "lair", "lake", "library",
      "mansion", "market", "meadow", "mine", "monastery", "mountain",
      "museum", "observatory", "ocean", "outpost", "palace", "path",
      "planet", "port", "prison", "realm", "river", "road", "ruins",
      "sanctuary", "school", "sewer", "shop", "space station", "stronghold",
      "swamp", "temple", "tomb", "tower", "town", "tunnel", "valley",
      "village", "volcano", "warehouse">>

common_words ==
    {"The", "This", "That", "They", "Then", "There", "These", "Those",
      "When", "Where", "What", "Who", "Why", "How", "And", "But", "Or", "So",
      "For", "As", "At", "By", "In", "On", "To", "With", "From", "A", "An"}

titles ==
    {"Agent", "Captain", "Commander", "Dame", "Detective", "Dr", "General",
      "King", "Lady", "Lord", "Miss", "Mr", "Mrs", "Ms", "Officer", "Prince",
      "Princess", "Professor", "Queen", "Sergeant", "Sir"}

\* re.split(r'[.!?]+', story), stripped, the empty pieces dropped
Sentences(story) ==
    LET cuts == <<0>> \o SortedSeq({i \in 1..Len(story) : Char(story, i) \in {".", "!", "?"}})
                    \o <<Len(story) + 1>>
        pieces == [k \in 1..(Len(cuts) - 1) |->
                      Strip(SubSeq(story, cuts[k] + 1, cuts[k + 1] - 1))]
    IN  SelectSeq(pieces, LAMBDA p : p # "")

\* the lower-case letters that follow position i without a break
LowerRun(s, i) ==
    MinOf({j \in (i + 1)..(Len(s) + 1) :
              j = Len(s) + 1 \/ Char(s, j) \notin LowerChars}) - (i + 1)

\* re.findall(r'\b[A-Z][a-z]{2,}\b', story): a capital at a word start, then
\* two or more lower-case letters up to a word end
potential_names(story) ==
    LET starts == SortedSeq({i \in 1..Len(story) :
                      /\ Char(story, i) \in UpperChars
                      /\ i = 1 \/ ~IsWordChar(Char(story, i - 1))
                      /\ LowerRun(story, i) >= 2
                      /\ LET after == i + LowerRun(story, i) + 1 IN
                         after > Len(story) \/ ~IsWordChar(Char(story, after))})
    IN  [k \in 1..Len(starts) |->
            SubSeq(story, starts[k], starts[k] + LowerRun(story, starts[k]))]

\* for i, word in enumerate(potential_names): a title is joined with the
\* candidate after it, a common word is left out ("" here)
combined_names(story) ==
    LET found == potential_names(story)
        added == [i \in 1..Len(found) |->
                    IF found[i] \in titles /\ i + 1 <= Len(found)
                    THEN found[i] \o " " \o found[i + 1]
                    ELSE IF found[i] \notin common_words THEN found[i]
                    ELSE ""]
        kept == SelectSeq(added, LAMBDA w : w # "")
    IN  Dedupe(kept, 1, Len(kept))

\* list(set(xs)) of distinct items xs, the hash order being h
SetOrder(xs, h) == DrawFrom(xs, Len(xs), h)

\* a plausible slip: the slice [:5] is left out
FirstFiveAll(xs) == xs

\* xs[:5]
FirstFive(xs) == SubSeq(xs, 1, IF Len(xs) < 5 THEN Len(xs) ELSE 5)

\* what the function finds before the lists go through set() and [:5]
ElementsFound(story_arg) ==
    LET story == IF story_arg = None THEN "" ELSE story_arg
        sentences == Sentences(story)
        story_lower == Lower(story)
    IN  [names |-> combined_names(story),
         actions |-> <<>>,
         objects |-> SelectSeq(OBJECT_WORDS, LAMBDA obj : Contains(story_lower, obj)),
         places |-> SelectSeq(PLACE_WORDS, LAMBDA place : Contains(story_lower, place)),
         sentences |-> SubSeq(sentences, 1, IF Len(sentences) < 6 THEN Len(sentences) ELSE 6),
         first_sentence |-> IF Len(sentences) > 0 THEN sentences[1] ELSE "",
         story_words |-> Split(story)]

\* the return statement: list(set(xs))[:5] of names, actions, objects, places
ElementsReturned(found, h) ==
    [found EXCEPT !.names = FirstFive(SetOrder(@, h)),
                  !.actions = FirstFive(SetOrder(@, h)),
                  !.objects = FirstFive(SetOrder(@, h)),
                  !.places = FirstFive(SetOrder(@, h))]

extract_story_elements(story_arg, h) == ElementsReturned(ElementsFound(story_arg), h)

(***************************************************************************)
(* The game objects of a session, the text-generation service and story    *)
(* generation.                                                             *)
(***************************************************************************)
\* OllamaStoryQuizGame.__init__
NewGame ==
    [mode |-> "classic",
     score |-> 0,
     questions_answered |-> 0,
     used_stories |-> {},
     story_word_limit |-> 150,
     num_questions_per_round |-> 3]

\* OllamaStoryQuizGameWithLevels.__init__
NewLeveledGame(start_level) ==
    [mode |-> "levels",
     score |-> 0,
     questions_answered |-> 0,
     used_stories |-> {},
     level |-> start_level,
     level_score |-> 0,
     story_word_limit |-> 100 + (25 * (start_level - 1)),
     max_level |-> 50,
     hints |-> 3,
     num_questions_per_round |-> 3 + ((start_level - 1) \div 5)]

\* isinstance(game, OllamaStoryQuizGameWithLevels), hasattr(game, 'level')
HasLevels(g) == g.mode = "levels"

Min(a, b) == IF a < b THEN a ELSE b

\* advance_level: the game afterwards and the value returned
advance_level(g) ==
    IF g.level < g.max_level
    THEN LET hint_awarded == (g.level + 1) > 1 /\ (g.level + 1) % 2 # 0 IN
         [game |-> [g EXCEPT !.hints = IF hint_awarded THEN @ + 1 ELSE @,
                             !.level = @ + 1,
                             !.level_score = 0,
                             !.story_word_limit = Min(@ + 25, 600),
                             !.num_questions_per_round = Min(3 + ((g.level + 1) \div 5), 8)],
          hint_awarded |-> hint_awarded]
    ELSE [game |-> g, hint_awarded |-> FALSE]

\* the request to the service raised (connection error, timeout, HTTP error
\* status, a body that is not the expected JSON)
ServiceFailure == "<failure>"

\* generate_with_ollama, given what the service did: the stripped response
\* text, "" after a failure
generate_with_ollama(outcome) ==
    IF outcome = ServiceFailure THEN "" ELSE Strip(outcome)

\* str(hash(story))
story_hash(story) == ToString(hashes[story])

fallback_stories ==
    <<"Maya found a magical music box in her grandmother's attic. When she opened it, a tiny dancer began to spin, and the melody transported her to a world where colors had sounds and dreams took flight.",
      "Ben discovered an old compass that didn't point north. Instead, it led him through the enchanted forest to a clearing where time moved backwards and he could see his future self waving from tomorrow.",
      "Luna's pet rabbit, Whiskers, started talking one morning. He told her about the secret underground city where all lost socks go, and together they planned an epic adventure to retrieve her favorite striped pair.">>

get_fallback_story == random_choice(fallback_stories)

\* a plausible slip: one more turn of the loop
AttemptsLeftFour(attempt) == attempt < 4

\* the loop of the base generate_story goes on: `for attempt in range(3)`
AttemptsLeft(attempt) == attempt < 3

\* a plausible slip: the fingerprint is not looked up
FreshAlways(fingerprint, used_stories) == TRUE

\* story_hash not in self.used_stories
Fresh(fingerprint, used_stories) == fingerprint \notin used_stories

\* a plausible slip: the set is started anew with the fingerprint
RememberOnly(used_stories, fingerprint) == {fingerprint}

\* self.used_stories.add(story_hash)
Remember(used_stories, fingerprint) == used_stories \cup {fingerprint}

\* a plausible slip: the response is returned as it came
leveled_story_untruncated(raw_story, word_limit) ==
    IF raw_story # "" THEN raw_story ELSE get_fallback_story

\* the last two lines of the leveled generate_story
leveled_story(raw_story, word_limit) ==
    LET story == IF raw_story # "" THEN _truncate_story(raw_story, word_limit) ELSE ""
    IN  IF story # "" THEN story ELSE get_fallback_story

\* a plausible slip: the streamed text is the response as it came
stream_final_story_untruncated(raw, word_limit) ==
    IF raw # "" THEN raw ELSE get_fallback_story

\* generate_story_stream: the text decided before the first chunk,
\* `self._truncate_story(raw, self.story_word_limit) if raw else self.get_fallback_story()`
stream_final_story(raw, word_limit) ==
    IF raw # "" THEN _truncate_story(raw, word_limit) ELSE get_fallback_story

\* a plausible slip: a list with more records than asked for is accepted
ParsedCountAtLeast(parsed_questions, num_questions) ==
    Len(parsed_questions) >= num_questions

\* len(parsed_questions) == num_questions
ParsedCountOk(parsed_questions, num_questions) ==
    Len(parsed_questions) = num_questions

\* the dict extract_story_elements returns, as the generators read it
ElementsMap(story, found) ==
    [has |-> {"names", "actions", "objects", "places", "sentences",
              "first_sentence", "story_words"},
     story |-> story,
     names |-> found.names,
     objects |-> found.objects,
     actions |-> found.actions,
     places |-> found.places,
     sentences |-> found.sentences,
     first_sentence |-> found.first_sentence,
     story_words |-> found.story_words]

\* get_fallback_quiz after generate_unique_questions has returned: the loop
\* `for _ in range(remaining_needed)` ...
RECURSIVE FillFallbackQuiz(_, _, _, _)
FillFallbackQuiz(unique_questions, remaining_needed, story, elements) ==
    IF remaining_needed = 0 THEN unique_questions
    ELSE FillFallbackQuiz(
            unique_questions \o create_contextual_question(story, elements, {}).qs,
            remaining_needed - 1, story, elements)

\* ... and its return statements
get_fallback_quiz(unique_questions, num_questions, story, elements) ==
    IF Len(unique_questions) >= num_questions
    THEN SubSeq(unique_questions, 1, num_questions)
    ELSE LET filled == FillFallbackQuiz(unique_questions,
                                        num_questions - Len(unique_questions),
                                        story, elements)
         IN  SubSeq(filled, 1, Min(num_questions, Len(filled)))

(***************************************************************************)
(* The variables of generate_unique_questions, at rest while a text helper *)
(* or the parser is the operation under way.                               *)
(***************************************************************************)
\* no game object and no operation on one
NoGame == [mode |-> "none"]

NoLocals == [op |-> "none"]

Idle ==
    /\ questions = <<>>
    /\ used_elements = {}
    /\ remaining = <<>>
    /\ calls = <<>>
    /\ rng = 0
    /\ game = NoGame
    /\ local = NoLocals
    /\ hashes = <<>>
    /\ user_progress = 0

(***************************************************************************)
(* Bounds of the inputs.                                                   *)
(***************************************************************************)
MaxStoryWords == 4
MaxWordLimit == 3
MaxPoolLen == 3
MaxFallbackLen == 2
MaxK == 3
MaxPieces == 3
MaxBlocks == 2
MaxDraws == 2
MinQuestions == 3
MaxQuestions == 4
MaxOrders == 4
OrderStride == 11
MaxHashOrders == 4
HashStride == 7
MaxStartLevel == 2
MaxScore == 2
MaxMcqDraws == 24
MaxProgress == 51
MaxRequests == 2
MaxNamePieces == 2


(***************************************************************************)
(* SpecTrunc: _truncate_story applied to stories of up to MaxStoryWords    *)
(* words, with and without '.', '!' and '?'.                               *)
(***************************************************************************)
TruncWords == {"go", "on.", "hi!", "so?", "a.b"}

InitTrunc ==
    /\ pc = "call"
    /\ arg \in {[story |-> Join(w, " "), word_limit |-> n] :
                    w \in SeqsUpTo(TruncWords, MaxStoryWords), n \in 1..MaxWordLimit}
    /\ ret = ""
    /\ Idle

TruncateStory ==
    /\ pc = "call"
    /\ ret' = _truncate_story(arg.story, arg.word_limit)
    /\ pc' = "return"
    /\ UNCHANGED <<arg, questions, used_elements, remaining, calls, rng, game, local, hashes, user_progress>>

NextTrunc == TruncateStory

SpecTrunc == InitTrunc /\ [][NextTrunc]_vars

(***************************************************************************)
(* SpecSample: _safe_sample applied to pools with blanks and duplicates.   *)
(***************************************************************************)
PoolItems == {"a", "b", "", " "}
FallbackItems == {"a", "b", "c", ""}

InitSample ==
    /\ pc = "call"
    /\ arg \in [pool : SeqsUpTo(PoolItems, MaxPoolLen),
                k : 0..MaxK,
                fallback_pool : SeqsUpTo(FallbackItems, MaxFallbackLen)]
    /\ ret = <<>>
    /\ questions = <<>> /\ used_elements = {} /\ remaining = <<>> /\ calls = <<>>
    /\ rng \in 0..(MaxDraws - 1)
    /\ game = NoGame /\ local = NoLocals /\ hashes = <<>>
    /\ user_progress = 0

SafeSample ==
    /\ pc = "call"
    /\ ret' = _safe_sample(arg.pool, arg.k, arg.fallback_pool)
    /\ rng' = (rng + 1) % MaxDraws
    /\ pc' = "return"
    /\ UNCHANGED <<arg, questions, used_elements, remaining, calls, game, local, hashes, user_progress>>

NextSample == SafeSample

SpecSample == InitSample /\ [][NextSample]_vars

(***************************************************************************)
(* SpecNorm: _normalize_text applied to texts put together from pieces     *)
(* that end in "ed" and "ing", blanks, punctuation and capitals.           *)
(***************************************************************************)
NormPieces == {"ne", "ed", "ing", " ", "!", "A", " ! "}

InitNorm ==
    /\ pc = "call"
    /\ arg \in {[txt |-> Join(p, "")] : p \in SeqsUpTo(NormPieces, MaxPieces)}
    /\ ret = ""
    /\ Idle

NormalizeText ==
    /\ pc = "call"
    /\ ret' = _normalize_text(arg.txt)
    /\ pc' = "return"
    /\ UNCHANGED <<arg, questions, used_elements, remaining, calls, rng, game, local, hashes, user_progress>>

NextNorm == NormalizeText

SpecNorm == InitNorm /\ [][NextNorm]_vars

(***************************************************************************)
(* SpecParse: parse_quiz_questions applied to texts of up to MaxBlocks     *)
(* blocks.  A block is a question line, a layout of option lines and an    *)
(* answer line; each comes with what it says (q, key and text, letter), so *)
(* that what the parser returns is compared with what the text was written *)
(* from.  A text may start with a line that belongs to no question.        *)
(***************************************************************************)
FourOptions ==
    << [line |-> "A) Al", key |-> "A", text |-> "Al"],
       [line |-> "B) Bo", key |-> "B", text |-> "Bo"],
       [line |-> "C) Cy", key |-> "C", text |-> "Cy"],
       [line |-> "D) Di", key |-> "D", text |-> "Di"] >>

SpacedOptions ==
    << [line |-> "A) Al", key |-> "A", text |-> "Al"],
       [line |-> "B) Bo", key |-> "B", text |-> "Bo"],
       [line |-> "C) Cy  Cy", key |-> "C", text |-> "Cy  Cy"],
       [line |-> "D) Di", key |-> "D", text |-> "Di"] >>

ThreeOptions == SubSeq(FourOptions, 1, 3)

LooseOptions ==
    << [line |-> "  a. Al ", key |-> "A", text |-> "Al"],
       [line |-> "b:Bo\n", key |-> "B", text |-> "Bo"],
       [line |-> "C ) Cy", key |-> "C", text |-> "Cy"],
       [line |-> "d)\tDi", key |-> "D", text |-> "Di"] >>

RepeatedOption ==
    ThreeOptions \o << [line |-> "C) Di", key |-> "C", text |-> "Di"] >>

\* blocks in the format the quiz prompt asks for (src/game.py:913-919)
CanonicalBlocks ==
    [qline : { [line |-> "Question: Who ran?", q |-> "Who ran?"],
               [line |-> "Question: Why?", q |-> "Why?"] },
     layout : {FourOptions, SpacedOptions},
     ans : { [line |-> "Correct Answer: A", letter |-> "A"],
             [line |-> "Correct Answer: D", letter |-> "D"] }]

\* blocks that drift from it: another prefix, a question on its own line, no
\* question, other separators, a missing or repeated option, another answer
\* indicator or none
DriftedBlocks ==
    [qline : { [line |-> "question 2 -\nWhere to?", q |-> "Where to?"],
               [line |-> "QUESTION:", q |-> ""] },
     layout : {ThreeOptions, LooseOptions, RepeatedOption},
     ans : { [line |-> "answer - b", letter |-> "B"],
             [line |-> "", letter |-> ""] }]

BlockPool == CanonicalBlocks \cup DriftedBlocks

Preambles == {"", "Here is your quiz:\n"}

\* the text of a block, each of its lines ended by '\n'
BlockText(b) ==
    b.qline.line \o "\n"
    \o Join([i \in 1..Len(b.layout) |-> b.layout[i].line \o "\n"], "")
    \o b.ans.line \o "\n"

TextOf(preamble, blocks) ==
    preamble \o Join([i \in 1..Len(blocks) |-> BlockText(blocks[i])], "")

InitParse ==
    /\ pc = "call"
    /\ \E preamble \in Preambles, blocks \in SeqsUpTo(BlockPool, MaxBlocks) :
          arg = [preamble |-> preamble, blocks |-> blocks, txt |-> TextOf(preamble, blocks)]
    /\ ret = <<>>
    /\ Idle

ParseQuizQuestions ==
    /\ pc = "call"
    /\ ret' = parse_quiz_questions(arg.txt)
    /\ pc' = "return"
    /\ UNCHANGED <<arg, questions, used_elements, remaining, calls, rng, game, local, hashes, user_progress>>

NextParse == ParseQuizQuestions

SpecParse == InitParse /\ [][NextParse]_vars

(***************************************************************************)
(* SpecAnswer: parse_quiz_questions applied to one block whose question or *)
(* options hold the words "correct" and "answer", with each of the answer  *)
(* indicators.  `letter` is the letter the answer line gives with its      *)
(* indicator of the highest priority.                                      *)
(***************************************************************************)
WordyOptions ==
    << [line |-> "A) The correct door", key |-> "A", text |-> "The correct door"],
       [line |-> "B) An answer came", key |-> "B", text |-> "An answer came"],
       [line |-> "C) Cy", key |-> "C", text |-> "Cy"],
       [line |-> "D) Di", key |-> "D", text |-> "Di"] >>

AnswerBlocks ==
    [qline : { [line |-> "Question: Who ran?", q |-> "Who ran?"],
               [line |-> "Question: Which is the correct answer about Maya?",
                q |-> "Which is the correct answer about Maya?"],
               [line |-> "Question 1: What answer did Dan give?",
                q |-> "What answer did Dan give?"],
               [line |-> "Question: Who was correct?", q |-> "Who was correct?"] },
     layout : {FourOptions, WordyOptions},
     ans : { [line |-> "Correct Answer: B", letter |-> "B"],
             [line |-> "Correct: C", letter |-> "C"],
             [line |-> "Answer: D", letter |-> "D"],
             [line |-> "correct answer - a", letter |-> "A"],
             [line |-> "CORRECT:b", letter |-> "B"],
             [line |-> "Answer: c\nCorrect Answer: D", letter |-> "D"],
             [line |-> "Correct: B\nCorrect Answer: C", letter |-> "C"] }]

InitAnswer ==
    /\ pc = "call"
    /\ \E preamble \in Preambles, block \in AnswerBlocks :
          arg = [preamble |-> preamble, blocks |-> <<block>>,
                 txt |-> TextOf(preamble, <<block>>)]
    /\ ret = <<>>
    /\ Idle

SpecAnswer == InitAnswer /\ [][NextParse]_vars

(***************************************************************************)
(* Spec: one call of generate_unique_questions(story, elements) with       *)
(* num_questions_per_round = num_needed.  The order random.shuffle gives   *)
(* the bank is read off a number like every draw; the numbers taken are    *)
(* the multiples of OrderStride below MaxOrders * OrderStride, which put   *)
(* different generators first and second.                                  *)
(***************************************************************************)
candidate_generators ==
    <<"q_name", "q_action", "q_object", "q_place", "q_sequence", "q_true_false",
      "q_not_mentioned", "q_inference">>

Contextual == "create_contextual_question"

\* q = gen()
Generate(gen, story, elements, used) ==
    CASE gen = "q_name" -> q_name(elements, used)
      [] gen = "q_action" -> q_action(story, elements, used)
      [] gen = "q_object" -> q_object(elements, used)
      [] gen = "q_place" -> q_place(elements, used)
      [] gen = "q_sequence" -> q_sequence(elements, used)
      [] gen = "q_true_false" -> q_true_false(elements, used)
      [] gen = "q_not_mentioned" -> q_not_mentioned(elements, used)
      [] gen = "q_inference" -> q_inference(elements, used)

\* a plausible slip: the loop does not move on in the bank
RestOfBankKept(bank) == bank

\* for gen in candidate_generators: what is left after the generator in turn
RestOfBank(bank) == Tail(bank)

\* the texts the stories of the model are made of
ShortStory == "Maya found a key. She went to the castle!"

LongStory == Join([i \in 1..41 |-> IF i = 41 THEN "on." ELSE "and"], " ")

\* what extract_story_elements reads off a story: its sentences, its words
\* and the place words in it
TextFields(story) ==
    LET sentences == IF story = ShortStory
                     THEN <<"Maya found a key", "She went to the castle">>
                     ELSE <<SubSeq(story, 1, Len(story) - 1)>>
    IN  [sentences |-> sentences,
         first_sentence |-> sentences[1],
         story_words |-> Split(story),
         places |-> IF story = ShortStory THEN <<"castle">> ELSE <<>>]

TextKeys == {"sentences", "first_sentence", "story_words", "places"}

\* a list of the elements map: missing from the map, empty, or with an item
ListChoices(item) ==
    {[has |-> FALSE, list |-> <<>>], [has |-> TRUE, list |-> <<>>],
     [has |-> TRUE, list |-> <<item>>]}

\* the elements maps: with and without a story text, names, objects and
\* actions
ElementsMaps ==
    {[has |-> (IF names.has THEN {"names"} ELSE {})
                \cup (IF objects.has THEN {"objects"} ELSE {})
                \cup (IF actions.has THEN {"actions"} ELSE {})
                \cup (IF story = "" THEN {} ELSE TextKeys),
      story |-> story,
      names |-> names.list,
      objects |-> objects.list,
      actions |-> actions.list,
      places |-> IF story = "" THEN <<>> ELSE TextFields(story).places,
      sentences |-> IF story = "" THEN <<>> ELSE TextFields(story).sentences,
      first_sentence |-> IF story = "" THEN "" ELSE TextFields(story).first_sentence,
      story_words |-> IF story = "" THEN <<>> ELSE TextFields(story).story_words] :
        story \in {"", ShortStory, LongStory},
        names \in ListChoices("Maya"),
        objects \in ListChoices("key"),
        actions \in ListChoices("find")}

\* num_questions_per_round: 3 + level // 5, at most 8
QuestionCounts == MinQuestions..MaxQuestions

Init ==
    /\ pc = "call"
    /\ arg \in {[story |-> e.story, elements |-> e, num_needed |-> n] :
                    e \in ElementsMaps, n \in QuestionCounts}
    /\ ret = <<>>
    /\ questions = <<>>
    /\ used_elements = {}
    /\ remaining = <<>>
    /\ calls = [g \in Range(candidate_generators) \cup {Contextual} |-> 0]
    /\ rng \in 0..(MaxDraws - 1)
    /\ game = NoGame /\ local = NoLocals /\ hashes = <<>>
    /\ user_progress = 0

\* questions = [], used_elements = set(), random.shuffle(candidate_generators)
Begin ==
    /\ pc = "call"
    /\ pc' = "generators"
    /\ questions' = <<>>
    /\ used_elements' = {}
    /\ \E r \in 0..(MaxOrders - 1) :
        remaining' = DrawFrom(candidate_generators, Len(candidate_generators),
                              r * OrderStride)
    /\ UNCHANGED <<arg, ret, calls, rng, game, local, hashes, user_progress>>

\* one turn of `for gen in candidate_generators`
RunGenerator ==
    /\ pc = "generators"
    /\ Len(questions) < arg.num_needed
    /\ remaining # <<>>
    /\ \E out \in {Generate(Head(remaining), arg.story, arg.elements, used_elements)} :
        /\ questions' = questions \o out.qs
        /\ used_elements' = out.used
        /\ rng' = IF out.status = "question" THEN (rng + 1) % MaxDraws ELSE rng
    /\ remaining' = RestOfBank(remaining)
    /\ calls' = [calls EXCEPT ![Head(remaining)] = @ + 1]
    /\ UNCHANGED <<pc, arg, ret, game, local, hashes, user_progress>>

\* the for loop ends: the bank is used up, or `break`
EndOfBank ==
    /\ pc = "generators"
    /\ remaining = <<>> \/ Len(questions) >= arg.num_needed
    /\ pc' = "fill"
    /\ UNCHANGED <<arg, ret, questions, used_elements, remaining, calls, rng, game, local, hashes, user_progress>>

\* one turn of `while len(questions) < num_needed`
FillContextual ==
    /\ pc = "fill"
    /\ Len(questions) < arg.num_needed
    /\ \E ctx \in {create_contextual_question(arg.story, arg.elements, used_elements)} :
        /\ questions' = questions \o ctx.qs
        /\ used_elements' = ctx.used
        /\ pc' = IF ctx.status = "question" THEN "fill" ELSE "cleanup"
        /\ rng' = IF ctx.status = "question" THEN (rng + 1) % MaxDraws ELSE rng
    /\ calls' = [calls EXCEPT ![Contextual] = @ + 1]
    /\ UNCHANGED <<arg, ret, remaining, game, local, hashes, user_progress>>

\* the clean-up pass and `return cleaned[:num_needed]`
Return ==
    /\ pc \in {"fill", "cleanup"}
    /\ pc = "fill" => Len(questions) >= arg.num_needed
    /\ ret' = CleanUp(questions, arg.num_needed)
    /\ pc' = "return"
    /\ UNCHANGED <<arg, questions, used_elements, remaining, calls, rng, game, local, hashes, user_progress>>

Next == Begin \/ RunGenerator \/ EndOfBank \/ FillContextual \/ Return

Spec == Init /\ [][Next]_vars

(***************************************************************************)
(* SpecContextual: create_contextual_question called again and again on    *)
(* the elements of a story with one used-elements set, as the fill loop of *)
(* generate_unique_questions does.                                         *)
(***************************************************************************)
\* stories with a first sentence of 4, 1, 2 and 41 words, of at most and of
\* more than 40 words, one that mentions every word of possible_not
ContextualStories ==
    {"", ShortStory, "Wait! She ran home.", "She ran. Maya hid in the castle",
     LongStory, "Go! " \o LongStory,
     "Look! A spaceship, a museum, a robot, a castle, a river, a key, a lantern, a dragon and a market."}

\* what extract_story_elements gives on the stories, and an empty dict
ContextualElements ==
    {ElementsMap(story, ElementsFound(story)) : story \in ContextualStories}
    \cup {[ElementsMap("", ElementsFound("")) EXCEPT !.has = {}]}

\* what earlier questions may have left in the used-elements set
ContextualUsed == {"maya", "wait"}

InitContextual ==
    /\ pc = "call"
    /\ arg \in {[story |-> e.story, elements |-> e] : e \in ContextualElements}
    /\ ret = <<>>
    /\ used_elements \in SUBSET ContextualUsed
    /\ questions = <<>> /\ remaining = <<>> /\ calls = <<>>
    /\ rng \in 0..(MaxDraws - 1)
    /\ game = NoGame /\ local = NoLocals /\ hashes = <<>>
    /\ user_progress = 0

CallContextual ==
    /\ pc = "call"
    /\ \E ctx \in {create_contextual_question(arg.story, arg.elements, used_elements)} :
        /\ ret' = ctx
        /\ used_elements' = ctx.used
    /\ pc' = "return"
    /\ UNCHANGED <<arg, questions, remaining, calls, rng, game, local, hashes,
                   user_progress>>

\* the caller goes round its loop; the random module has moved on
CallContextualAgain ==
    /\ pc = "return"
    /\ pc' = "call"
    /\ ret' = <<>>
    /\ rng' = (rng + 1) % MaxDraws
    /\ UNCHANGED <<arg, questions, used_elements, remaining, calls, game, local, hashes,
                   user_progress>>

NextContextual == CallContextual \/ CallContextualAgain

SpecContextual == InitContextual /\ [][NextContextual]_vars

(***************************************************************************)
(* SpecExtract: extract_story_elements applied to None, to the empty story *)
(* and to stories of up to MaxPieces sentences.                            *)
(***************************************************************************)
StoryPieces ==
    {"Maya found a golden key in the old library.",
     "Captain Nemo met Bartholomew!",
     "Then Tom, Alexander and Christopher ran to the castle?",
     "The dog saw a map, a box, a gem and a cat in the forest",
     "Wait... what?!"}

Stories == {None} \cup {Join(parts, " ") : parts \in SeqsUpTo(StoryPieces, MaxPieces)}

InitExtract ==
    /\ pc = "call"
    /\ arg \in Stories
    /\ ret = <<>>
    /\ Idle

ExtractStoryElements ==
    /\ pc = "call"
    /\ \E found \in {ElementsFound(arg)} : \E h \in 0..(MaxHashOrders - 1) :
          ret' = ElementsReturned(found, h * HashStride)
    /\ pc' = "return"
    /\ UNCHANGED <<arg, questions, used_elements, remaining, calls, rng, game, local, hashes, user_progress>>

NextExtract == ExtractStoryElements

SpecExtract == InitExtract /\ [][NextExtract]_vars

(***************************************************************************)
(* SpecNames: extract_story_elements applied to stories with titles before *)
(* names, at the end of a sentence and on their own, and with common words *)
(* at the start of sentences.                                              *)
(***************************************************************************)
NamePieces ==
    {"Dr Watson met Maya.",
     "Mrs Hudson saw Captain Nemo!",
     "The Captain left.",
     "Then Tom ran to Professor Plum",
     "Mr Fox and Ms Reed sang.",
     "When This ended, Sir Bors slept."}

NameStories == {Join(parts, " ") : parts \in SeqsUpTo(NamePieces, MaxNamePieces)}

InitNames ==
    /\ pc = "call"
    /\ arg \in NameStories
    /\ ret = <<>>
    /\ Idle

SpecNames == InitNames /\ [][NextExtract]_vars

(***************************************************************************)
(* SpecGenerator: one generator of the bank called on its own, as the      *)
(* orchestrator's `q = gen()` does with an empty used_elements set.        *)
(***************************************************************************)
InitGenerator ==
    /\ pc = "call"
    /\ arg \in {[gen |-> g, story |-> e.story, elements |-> e] :
                    g \in Range(candidate_generators), e \in ElementsMaps}
    /\ ret = ReturnedNone({})
    /\ questions = <<>> /\ used_elements = {} /\ remaining = <<>> /\ calls = <<>>
    /\ rng \in 0..(MaxDraws - 1)
    /\ game = NoGame /\ local = NoLocals /\ hashes = <<>>
    /\ user_progress = 0

CallGenerator ==
    /\ pc = "call"
    /\ ret' = Generate(arg.gen, arg.story, arg.elements, used_elements)
    /\ pc' = "return"
    /\ UNCHANGED <<arg, questions, used_elements, remaining, calls, rng, game, local, hashes, user_progress>>

NextGenerator == CallGenerator

SpecGenerator == InitGenerator /\ [][NextGenerator]_vars

(***************************************************************************)
(* SpecMcq: the four generators that build their options with make_mcq,    *)
(* each called on its own on the elements of a story, under the draws that *)
(* pick the decoys and give the 4 options their order.                     *)
(***************************************************************************)
McqGenerators == {"q_name", "q_action", "q_object", "q_place"}

McqStories == {ShortStory, "Sam lost a ring in the jungle."}

\* the verbs the lemmatizer gives when it is installed, none when it is not
McqActions == {<<>>, <<"find">>, <<"walk">>}

\* extract_story_elements on the stories: every list has at most one item
\* but the objects of ShortStory, so the set order shows there only
McqElements ==
    {[ElementsMap(story, extract_story_elements(story, h))
        EXCEPT !.actions = actions] :
            story \in McqStories, actions \in McqActions,
            h \in {k * HashStride : k \in 0..1}}

InitMcq ==
    /\ pc = "call"
    /\ arg \in {[gen |-> g, story |-> e.story, elements |-> e] :
                    g \in McqGenerators, e \in McqElements}
    /\ ret = ReturnedNone({})
    /\ questions = <<>> /\ used_elements = {} /\ remaining = <<>> /\ calls = <<>>
    /\ rng \in 0..(MaxMcqDraws - 1)
    /\ game = NoGame /\ local = NoLocals /\ hashes = <<>>
    /\ user_progress = 0

SpecMcq == InitMcq /\ [][NextGenerator]_vars

(***************************************************************************)
(* SpecSession: one game session of the web application, from start_game   *)
(* on.  A request is served at a time: pc is "idle" between requests and   *)
(* "done" when the handler has its return value.                           *)
(***************************************************************************)
\* a response of more words than any word limit of the model, with a full
\* stop after 60 words and at the end
LongResponse ==
    Join([i \in 1..170 |-> IF i \in {60, 170} THEN "end." ELSE "and"], " ")

\* what the service does on a story prompt
RawStoryResponses ==
    {ServiceFailure, " \n", ShortStory, " " \o ShortStory \o "\n", LongResponse}

HashedStories == {generate_with_ollama(o) : o \in RawStoryResponses} \ {""}

\* hash(story) in this process: as many values as there are stories, so that
\* the stories may all differ in their hash or any of them collide
HashValues == 1..Cardinality(HashedStories)

StartLevels == 1..MaxStartLevel

\* start_game: a classic game, or a leveled game from the stored progress
InitSession ==
    /\ pc = "idle"
    /\ game \in {NewGame} \cup {NewLeveledGame(l) : l \in StartLevels}
    /\ local = NoLocals
    /\ hashes \in [HashedStories -> HashValues]
    /\ user_progress = IF HasLevels(game) THEN game.level - 1 ELSE 0
    /\ arg = <<>> /\ ret = <<>>
    /\ questions = <<>> /\ used_elements = {} /\ remaining = <<>> /\ calls = <<>>
    /\ rng \in 0..(MaxDraws - 1)

\* base generate_story up to the loop: the prompt is built from random picks
GenerateStory ==
    /\ pc = "idle"
    /\ ~HasLevels(game)
    /\ pc' = "story_attempt"
    /\ local' = [op |-> "generate_story", attempt |-> 0, service_calls |-> 0,
                 story |-> "", result |-> "pending"]
    /\ rng' \in 0..(MaxDraws - 1)
    /\ UNCHANGED <<arg, ret, questions, used_elements, remaining, calls, game, hashes, user_progress>>

\* one turn of `for attempt in range(3)`
StoryAttempt ==
    /\ pc = "story_attempt"
    /\ AttemptsLeft(local.attempt)
    /\ \E outcome \in RawStoryResponses :
        LET story == generate_with_ollama(outcome) IN
        IF story # "" /\ Fresh(story_hash(story), game.used_stories)
        THEN /\ game' = [game EXCEPT !.used_stories = Remember(@, story_hash(story))]
             /\ ret' = _truncate_story(story, game.story_word_limit)
             /\ local' = [local EXCEPT !.service_calls = @ + 1, !.story = story,
                                       !.result = "accepted"]
             /\ pc' = "done"
        ELSE /\ local' = [local EXCEPT !.service_calls = @ + 1, !.story = story,
                                       !.attempt = @ + 1]
             /\ UNCHANGED <<pc, ret, game>>
    /\ UNCHANGED <<arg, questions, used_elements, remaining, calls, rng, hashes, user_progress>>

\* the loop is over: return self.get_fallback_story()
StoryFallback ==
    /\ pc = "story_attempt"
    /\ ~AttemptsLeft(local.attempt)
    /\ ret' = get_fallback_story
    /\ rng' = (rng + 1) % MaxDraws
    /\ local' = [local EXCEPT !.result = "fallback"]
    /\ pc' = "done"
    /\ UNCHANGED <<arg, questions, used_elements, remaining, calls, game, hashes, user_progress>>

\* the leveled generate_story: the prompt is built from random picks, the
\* service is called once
GenerateLeveledStory ==
    /\ pc = "idle"
    /\ HasLevels(game)
    /\ \E outcome \in RawStoryResponses :
        LET raw_story == generate_with_ollama(outcome) IN
        /\ ret' = leveled_story(raw_story, game.story_word_limit)
        /\ local' = [op |-> "generate_story", service_calls |-> 1, story |-> raw_story]
    /\ rng' \in 0..(MaxDraws - 1)
    /\ pc' = "done"
    /\ UNCHANGED <<arg, questions, used_elements, remaining, calls, game, hashes, user_progress>>

\* what the database does during a request: the connection is missing, the
\* cursor cannot be had, a statement or the commit raises, or all goes well
DbOutcomes == {"unavailable", "no_cursor", "statement_fails", "ok"}

\* submit_answer: the game after the request
submit_answer(g, is_correct, db) ==
    IF db \in {"unavailable", "no_cursor"} THEN g
    ELSE LET scored == IF ~is_correct THEN g
                       ELSE IF HasLevels(g)
                       THEN [g EXCEPT !.score = @ + 1, !.level_score = @ + 1]
                       ELSE [g EXCEPT !.score = @ + 1]
         IN  IF db = "statement_fails" THEN scored
             ELSE [scored EXCEPT !.questions_answered = @ + 1]

SubmitAnswer ==
    /\ pc = "idle"
    /\ game # NoGame
    /\ game.score < MaxScore /\ game.questions_answered < MaxScore
    /\ \E is_correct \in BOOLEAN, db \in DbOutcomes :
        /\ game' = submit_answer(game, is_correct, db)
        /\ local' = [op |-> "submit_answer", is_correct |-> is_correct, db |-> db]
        /\ ret' = [success |-> db = "ok"]
    /\ pc' = "done"
    /\ UNCHANGED <<arg, questions, used_elements, remaining, calls, rng, hashes, user_progress>>

\* check_level_up: the game after the request and what the response says
check_level_up(g, db) ==
    IF ~HasLevels(g) THEN [game |-> g, success |-> TRUE, leveled_up |-> FALSE, recorded |-> FALSE]
    ELSE IF g.level_score >= 2
    THEN IF db = "ok"
         THEN [game |-> advance_level(g).game, success |-> TRUE, leveled_up |-> TRUE,
               recorded |-> TRUE]
         ELSE [game |-> g, success |-> FALSE, leveled_up |-> FALSE, recorded |-> FALSE]
    ELSE [game |-> g, success |-> TRUE, leveled_up |-> FALSE, recorded |-> FALSE]

CheckLevelUp ==
    /\ pc = "idle"
    /\ game # NoGame
    /\ \E db \in DbOutcomes :
        LET out == check_level_up(game, db) IN
        /\ game' = out.game
        /\ user_progress' = IF out.recorded /\ game.level > user_progress
                            THEN game.level ELSE user_progress
        /\ local' = [op |-> "check_level_up", db |-> db, previous_level |->
                        IF HasLevels(game) THEN game.level ELSE 0,
                     recorded |-> out.recorded]
        /\ ret' = [success |-> out.success, leveled_up |-> out.leveled_up]
    /\ pc' = "done"
    /\ UNCHANGED <<arg, questions, used_elements, remaining, calls, rng, hashes>>

\* use_hint
UseHint ==
    /\ pc = "idle"
    /\ IF HasLevels(game) /\ game.hints > 0
       THEN /\ game' = [game EXCEPT !.hints = @ - 1]
            /\ ret' = [success |-> TRUE]
       ELSE /\ game' = game
            /\ ret' = [success |-> FALSE]
    /\ local' = [op |-> "use_hint"]
    /\ pc' = "done"
    /\ UNCHANGED <<arg, questions, used_elements, remaining, calls, rng, hashes, user_progress>>

\* skip_level
SkipLevel ==
    /\ pc = "idle"
    /\ IF HasLevels(game) /\ game.hints >= 2
       THEN /\ game' = advance_level([game EXCEPT !.hints = @ - 2]).game
            /\ ret' = [success |-> TRUE]
       ELSE /\ game' = game
            /\ ret' = [success |-> FALSE]
    /\ local' = [op |-> "skip_level"]
    /\ pc' = "done"
    /\ UNCHANGED <<arg, questions, used_elements, remaining, calls, rng, hashes, user_progress>>

\* reset_game
reset_game(g) ==
    LET cleared == [g EXCEPT !.score = 0, !.questions_answered = 0, !.used_stories = {}]
    IN  IF g = NoGame THEN g
        ELSE IF HasLevels(g)
        THEN [cleared EXCEPT !.level = 1, !.level_score = 0, !.story_word_limit = 100,
                             !.num_questions_per_round = 3]
        ELSE cleared

ResetGame ==
    /\ pc = "idle"
    /\ game' = reset_game(game)
    /\ local' = [op |-> "reset_game"]
    /\ ret' = [success |-> TRUE]
    /\ pc' = "done"
    /\ UNCHANGED <<arg, questions, used_elements, remaining, calls, rng, hashes, user_progress>>

\* the response is sent; the session waits for its next request
Respond ==
    /\ pc = "done"
    /\ pc' = "idle"
    /\ ret' = <<>>
    /\ local' = NoLocals
    /\ UNCHANGED <<arg, questions, used_elements, remaining, calls, rng, game, hashes, user_progress>>

NextSession ==
    \/ GenerateStory \/ StoryAttempt \/ StoryFallback \/ GenerateLeveledStory
    \/ SubmitAnswer \/ CheckLevelUp \/ UseHint \/ SkipLevel \/ ResetGame
    \/ Respond

SpecSession == InitSession /\ [][NextSession]_vars

(***************************************************************************)
(* SpecLevels: the game sessions of one user, one after the other, with    *)
(* the progress the database keeps between them.  The first session starts *)
(* with no stored progress; start_game replaces the session's game.        *)
(***************************************************************************)
InitLevels ==
    /\ pc = "idle"
    /\ game \in {NewGame, NewLeveledGame(1)}
    /\ local = NoLocals
    /\ hashes = <<>>
    /\ user_progress = 0
    /\ arg = <<>> /\ ret = <<>>
    /\ questions = <<>> /\ used_elements = {} /\ remaining = <<>> /\ calls = <<>>
    /\ rng = 0

\* start_game: the level is read from the stored progress; without the
\* database (leveled mode) or the service the session is left without a game
StartGame ==
    /\ pc = "idle"
    /\ user_progress < MaxProgress
    /\ \E game_mode \in {"classic", "levels"}, db \in DbOutcomes,
          ollama_connected \in BOOLEAN :
        LET level == IF game_mode # "classic" /\ user_progress > 0
                     THEN user_progress + 1 ELSE 1
            started == (game_mode = "classic" \/ db = "ok") /\ ollama_connected
        IN  /\ game' = IF ~started THEN NoGame
                       ELSE IF game_mode = "classic" THEN NewGame
                       ELSE NewLeveledGame(level)
            /\ ret' = [success |-> started]
            /\ local' = [op |-> "start_game", game_mode |-> game_mode, level |-> level]
    /\ pc' = "done"
    /\ UNCHANGED <<arg, questions, used_elements, remaining, calls, rng, hashes,
                   user_progress>>

\* submit_answer and check_level_up when the session has no game:
\* 'No active game session'
NoActiveSession ==
    /\ pc = "idle"
    /\ game = NoGame
    /\ ret' = [success |-> FALSE]
    /\ local' = [op |-> "no_session"]
    /\ pc' = "done"
    /\ UNCHANGED <<arg, questions, used_elements, remaining, calls, rng, game, hashes,
                   user_progress>>

NextLevels ==
    \/ StartGame \/ NoActiveSession
    \/ SubmitAnswer \/ CheckLevelUp \/ UseHint \/ SkipLevel \/ ResetGame
    \/ Respond

SpecLevels == InitLevels /\ [][NextLevels]_vars

(***************************************************************************)
(* SpecHints: use_hint and skip_level requests served at the same time on  *)
(* one leveled session, each by a thread of the server.  pc and local are  *)
(* per request.  A thread may be preempted between two bytecodes: the      *)
(* check of the hint count, the load of game.hints and its store are       *)
(* steps of their own.  advance_level is taken as one step.                *)
(***************************************************************************)
Requests == 1..MaxRequests

InitHints ==
    /\ pc = [r \in Requests |-> "start"]
    /\ local = [r \in Requests |-> NoLocals]
    /\ game \in {NewLeveledGame(l) : l \in StartLevels}
    /\ hashes = <<>>
    /\ user_progress = 0
    /\ arg = <<>> /\ ret = <<>>
    /\ questions = <<>> /\ used_elements = {} /\ remaining = <<>> /\ calls = <<>>
    /\ rng = 0

\* `if hasattr(game, 'hints') and game.hints > 0:` of use_hint,
\* `if game.hints >= 2:` of skip_level
CheckHints ==
    \E r \in Requests, op \in {"use_hint", "skip_level"} :
        /\ pc[r] = "start"
        /\ LET needed == IF op = "use_hint" THEN 1 ELSE 2 IN
           /\ local' = [local EXCEPT ![r] = [op |-> op, needed |-> needed, hints |-> 0]]
           /\ pc' = [pc EXCEPT ![r] = IF game.hints >= needed THEN "load" ELSE "refused"]
        /\ UNCHANGED <<arg, ret, questions, used_elements, remaining, calls, rng, game,
                       hashes, user_progress>>

\* `game.hints -= n`: the attribute is loaded ...
LoadHints ==
    \E r \in Requests :
        /\ pc[r] = "load"
        /\ local' = [local EXCEPT ![r].hints = game.hints]
        /\ pc' = [pc EXCEPT ![r] = "store"]
        /\ UNCHANGED <<arg, ret, questions, used_elements, remaining, calls, rng, game,
                       hashes, user_progress>>

\* ... and the difference is stored
StoreHints ==
    \E r \in Requests :
        /\ pc[r] = "store"
        /\ game' = [game EXCEPT !.hints = local[r].hints - local[r].needed]
        /\ pc' = [pc EXCEPT ![r] = IF local[r].op = "skip_level" THEN "advance" ELSE "served"]
        /\ UNCHANGED <<arg, ret, questions, used_elements, remaining, calls, rng, local,
                       hashes, user_progress>>

\* skip_level: `hint_awarded_on_skip = game.advance_level()`
AdvanceAfterSkip ==
    \E r \in Requests :
        /\ pc[r] = "advance"
        /\ game' = advance_level(game).game
        /\ pc' = [pc EXCEPT ![r] = "served"]
        /\ UNCHANGED <<arg, ret, questions, used_elements, remaining, calls, rng, local,
                       hashes, user_progress>>

NextHints == CheckHints \/ LoadHints \/ StoreHints \/ AdvanceAfterSkip

SpecHints == InitHints /\ [][NextHints]_vars

(***************************************************************************)
(* SpecQuiz: generate_quiz_questions on a game, with the question          *)
(* synthesizer (the actions of Spec) as its fallback.                      *)
(***************************************************************************)
\* a classic game, and a leveled game that asks 4 questions per round
QuizGames == {NewGame, NewLeveledGame(6)}

QuizStories == {None, "", ShortStory, fallback_stories[1]}

WhoRan ==
    [qline |-> [line |-> "Question: Who ran?", q |-> "Who ran?"],
     layout |-> FourOptions,
     ans |-> [line |-> "Correct Answer: A", letter |-> "A"]]

WhyRan ==
    [qline |-> [line |-> "Question: Why?", q |-> "Why?"],
     layout |-> SpacedOptions,
     ans |-> [line |-> "Correct Answer: D", letter |-> "D"]]

ThreeOptionsOnly == [WhyRan EXCEPT !.layout = ThreeOptions]

\* what the service does on a quiz prompt: it fails, refuses, or answers
\* with 3 blocks, with 4 blocks, or with 3 blocks of which one is not valid
RawQuizResponses ==
    {ServiceFailure,
     "I cannot help with that.",
     TextOf("", <<WhoRan, WhyRan, WhoRan>>),
     TextOf("Here is your quiz:\n", <<WhoRan, WhyRan, WhoRan, WhyRan>>),
     TextOf("", <<WhoRan, ThreeOptionsOnly, WhyRan>>)}

InitQuiz ==
    /\ pc = "idle"
    /\ game \in QuizGames
    /\ local = NoLocals
    /\ hashes = <<>>
    /\ user_progress = 0
    /\ arg = <<>> /\ ret = <<>>
    /\ questions = <<>> /\ used_elements = {} /\ remaining = <<>> /\ calls = <<>>
    /\ rng \in 0..(MaxDraws - 1)

\* generate_quiz_questions up to the loop
GenerateQuiz ==
    /\ pc = "idle"
    /\ pc' = "quiz_attempt"
    /\ \E story \in QuizStories :
        local' = [op |-> "generate_quiz_questions",
                  story |-> IF story = None THEN "" ELSE story,
                  num_questions |-> game.num_questions_per_round,
                  attempt |-> 0, service_calls |-> 0, quiz_text |-> "",
                  result |-> "pending"]
    /\ UNCHANGED <<arg, ret, questions, used_elements, remaining, calls, rng, game, hashes, user_progress>>

\* one turn of `for attempt in range(3)`
QuizAttempt ==
    /\ pc = "quiz_attempt"
    /\ local.attempt < 3
    /\ \E outcome \in RawQuizResponses :
        LET quiz_text == generate_with_ollama(outcome) IN
        \E parsed_questions \in {parse_quiz_questions(quiz_text)} :
            IF ParsedCountOk(parsed_questions, local.num_questions)
            THEN /\ ret' = parsed_questions
                 /\ local' = [local EXCEPT !.service_calls = @ + 1,
                                           !.quiz_text = quiz_text,
                                           !.result = "parsed"]
                 /\ pc' = "done"
            ELSE /\ local' = [local EXCEPT !.service_calls = @ + 1,
                                           !.quiz_text = quiz_text,
                                           !.attempt = @ + 1]
                 /\ UNCHANGED <<pc, ret>>
    /\ UNCHANGED <<arg, questions, used_elements, remaining, calls, rng, game, hashes, user_progress>>

\* the loop is over: get_fallback_quiz extracts the elements and calls
\* generate_unique_questions
QuizFallback ==
    /\ pc = "quiz_attempt"
    /\ local.attempt >= 3
    /\ pc' = "call"
    /\ \E found \in {ElementsFound(local.story)} : \E h \in 0..(MaxHashOrders - 1) :
        arg' = [story |-> local.story,
                elements |-> ElementsMap(local.story,
                                         ElementsReturned(found, h * HashStride)),
                num_needed |-> game.num_questions_per_round]
    /\ calls' = [g \in Range(candidate_generators) \cup {Contextual} |-> 0]
    /\ questions' = <<>> /\ used_elements' = {} /\ remaining' = <<>>
    /\ local' = [local EXCEPT !.result = "fallback"]
    /\ UNCHANGED <<ret, rng, game, hashes, user_progress>>

\* generate_unique_questions has returned: the rest of get_fallback_quiz
FallbackReturn ==
    /\ pc = "return"
    /\ local.op = "generate_quiz_questions"
    /\ ret' = get_fallback_quiz(ret, local.num_questions, arg.story, arg.elements)
    /\ pc' = "done"
    /\ UNCHANGED <<arg, questions, used_elements, remaining, calls, rng, game, local, hashes, user_progress>>

NextQuiz ==
    \/ GenerateQuiz \/ QuizAttempt \/ QuizFallback
    \/ Begin \/ RunGenerator \/ EndOfBank \/ FillContextual \/ Return
    \/ FallbackReturn

SpecQuiz == InitQuiz /\ [][NextQuiz]_vars

(***************************************************************************)
(* generate_story_stream: the generator object of one stream.  Its body    *)
(* runs from the first request for a chunk: one service call, the final    *)
(* text, then one character per chunk.                                     *)
(***************************************************************************)
\* the generator as the route creates it: no line of its body has run
InitStream ==
    /\ pc = "stream"
    /\ game \in {NewGame} \cup {NewLeveledGame(l) : l \in StartLevels}
    /\ local = [op |-> "stream", service_calls |-> 0, raw |-> "",
                final_story |-> "", emitted |-> ""]
    /\ hashes = <<>>
    /\ user_progress = 0
    /\ arg = <<>> /\ ret = <<>>
    /\ questions = <<>> /\ used_elements = {} /\ remaining = <<>> /\ calls = <<>>
    /\ rng \in 0..(MaxDraws - 1)

\* the body up to the loop: the service call and the final text
StreamStart ==
    /\ pc = "stream"
    /\ \E outcome \in RawStoryResponses :
        \E raw \in {generate_with_ollama(outcome)} :
            /\ local' = [local EXCEPT !.service_calls = @ + 1,
                                      !.raw = raw,
                                      !.final_story =
                                          stream_final_story(raw, game.story_word_limit)]
            /\ rng' = IF raw # "" THEN rng ELSE (rng + 1) % MaxDraws
    /\ pc' = "emit"
    /\ UNCHANGED <<arg, ret, questions, used_elements, remaining, calls, game, hashes, user_progress>>

\* `for ch in final_story: yield ch`: the next character is the chunk
StreamChunk ==
    /\ pc = "emit"
    /\ Len(local.emitted) < Len(local.final_story)
    /\ \E ch \in {SubSeq(local.final_story, Len(local.emitted) + 1,
                                            Len(local.emitted) + 1)} :
        /\ ret' = ch
        /\ local' = [local EXCEPT !.emitted = @ \o ch]
    /\ UNCHANGED <<pc, arg, questions, used_elements, remaining, calls, rng, game, hashes, user_progress>>

\* the loop is over: the generator is exhausted
StreamEnd ==
    /\ pc = "emit"
    /\ Len(local.emitted) = Len(local.final_story)
    /\ pc' = "done"
    /\ UNCHANGED <<arg, ret, questions, used_elements, remaining, calls, rng, game,
                   local, hashes, user_progress>>

NextStream == StreamStart \/ StreamChunk \/ StreamEnd

SpecStream == InitStream /\ [][NextStream]_vars

(***************************************************************************)
(* Claims about the text helpers.                                          *)
(***************************************************************************)
\* C6: for every pool, fallback pool and k >= 0, _safe_sample returns a list
\* of exactly k items.
SafeSampleLength == pc = "return" => Len(ret) = arg.k

\* C6 witness: the pool is empty, the fallback pool has two usable items and
\* the third item is the "None" padding.
SafeSamplePadded ==
    /\ pc = "return"
    /\ arg.pool = <<>> /\ arg.k = 3 /\ arg.fallback_pool = <<"a", "c">>
    /\ ret = <<"a", "c", "None">>

\* The usable items of a pool (neither empty nor blank), and the place where
\* an item first occurs in a list.
IsBlank(p) == \A i \in 1..Len(p) : IsSpace(Char(p, i))

UsableItems(pool) == {p \in Range(pool) : ~IsBlank(p)}

FirstIndex(seq, x) == MinOf({i \in 1..Len(seq) : seq[i] = x})

\* out lists every item of S once, in the order of first occurrence in seq
InOrderOfFirst(out, seq, S) ==
    /\ Range(out) = S
    /\ Len(out) = Cardinality(S)
    /\ \A i, j \in 1..Len(out) :
          i < j => FirstIndex(seq, out[i]) < FirstIndex(seq, out[j])

\* C18: when the pool has fewer than k usable items, _safe_sample returns
\* those items in pool order, then the fallback items not already chosen, in
\* fallback order and only as many as are needed, then "None" padding; when
\* the pool has at least k usable items the result is k pairwise distinct
\* items of the pool.
SafeSampleFillOrder ==
    pc = "return" =>
        LET usable == UsableItems(arg.pool)
            n == Cardinality(usable)
            fresh == Range(arg.fallback_pool) \ usable
            m == IF arg.k - n < Cardinality(fresh) THEN arg.k - n
                 ELSE Cardinality(fresh)
        IN  IF n >= arg.k
            THEN /\ Len(ret) = arg.k
                 /\ Range(ret) \subseteq usable
                 /\ Cardinality(Range(ret)) = arg.k
            ELSE /\ Len(ret) = arg.k
                 /\ InOrderOfFirst(SubSeq(ret, 1, n), arg.pool, usable)
                 /\ \E taken \in SUBSET fresh :
                       /\ Cardinality(taken) = m
                       /\ \A x \in taken, y \in fresh \ taken :
                             FirstIndex(arg.fallback_pool, x)
                                 < FirstIndex(arg.fallback_pool, y)
                       /\ InOrderOfFirst(SubSeq(ret, n + 1, n + m),
                                         arg.fallback_pool, taken)
                 /\ \A i \in (n + m + 1)..arg.k : ret[i] = "None"

\* C18 witness: the empty pool with k = 3 and the fallback pool a, b gives
\* a, b and one "None".
SafeSampleFromFallback ==
    /\ pc = "return"
    /\ arg.pool = <<>> /\ arg.k = 3 /\ arg.fallback_pool = <<"a", "b">>
    /\ ret = <<"a", "b", "None">>

\* C7 as stated: normalizing a normalized text changes nothing.
NormalizeIdempotent == pc = "return" => _normalize_text(ret) = ret

\* C7 amended: normalizing a normalized text changes nothing, provided the
\* normalized text does not itself end in "ed", in "ing" or in a blank.
NormalizeIdempotentUnlessSuffix ==
    (pc = "return" /\ ~EndsWith(ret, "ed") /\ ~EndsWith(ret, "ing") /\ ~EndsWith(ret, " "))
        => _normalize_text(ret) = ret

\* C7 witness: a suffix was stripped from a text with capitals and
\* punctuation, and the result is a fixed point.
NormalizeStripped ==
    /\ pc = "return"
    /\ arg.txt = "Aing!"
    /\ ret = "a"
    /\ _normalize_text(ret) = ret

SentenceEnds == {".", "!", "?"}

HasSentenceEnd(s) == \E i \in 1..Len(s) : Char(s, i) \in SentenceEnds

LastSentenceEnd(s) ==
    CHOOSE i \in 1..Len(s) :
        Char(s, i) \in SentenceEnds /\ \A j \in (i + 1)..Len(s) : Char(s, j) \notin SentenceEnds

\* C8 as stated: the result has at most N words; when the story has more
\* than N words and '.', '!' or '?' occurs in its first N words the result
\* ends at the last of them, and "..." is appended only when none occurs.
TruncationLaw ==
    pc = "return" =>
        LET words == Split(arg.story)
            N == arg.word_limit
            span == Join(SubSeq(words, 1, N), " ")
        IN  /\ Len(Split(ret)) <= N
            /\ Len(words) > N =>
                  IF HasSentenceEnd(span)
                  THEN ret = SubSeq(span, 1, LastSentenceEnd(span))
                  ELSE ret = span \o "..."

(***************************************************************************)
(* Claims about parse_quiz_questions.                                      *)
(***************************************************************************)
\* C1: every record parse_quiz_questions returns has a non-empty question,
\* exactly the option keys A, B, C and D, and a `correct` that is one of them.
ParsedRecordsWellFormed ==
    pc = "return" =>
        \A i \in 1..Len(ret) :
            /\ ret[i].question # ""
            /\ DOMAIN ret[i].options = OptionLetters
            /\ ret[i].correct \in DOMAIN ret[i].options

\* C1 witness: a text with a malformed block and a well-formed one gave a
\* record, and fewer records than it has blocks.
ParsedSomeDroppedSome ==
    /\ pc = "return"
    /\ Len(ret) >= 1
    /\ Len(ret) < Len(arg.blocks)

\* what a block's option lines say: a later line of the same letter overwrites
ExpectedOptions(layout) ==
    [k \in {layout[i].key : i \in 1..Len(layout)} |->
        layout[MaxOf({i \in 1..Len(layout) : layout[i].key = k})].text]

ExpectedRecord(b) ==
    [question |-> b.qline.q, options |-> ExpectedOptions(b.layout), correct |-> b.ans.letter]

\* a text as the parser keeps it: trimmed, runs of whitespace made one blank
CleanText(t) == t = CollapseWs(Strip(t))

CleanBlock(b) ==
    /\ CleanText(b.qline.q)
    /\ \A i \in 1..Len(b.layout) : CleanText(b.layout[i].text)

\* C9 as stated: a text of n >= 1 blocks in the canonical format parses to n
\* records in the order of the blocks, each with the block's question (prefix
\* stripped), exactly its four option texts and its answer letter.
CanonicalTextParsesVerbatim ==
    (/\ pc = "return"
     /\ arg.preamble = ""
     /\ Len(arg.blocks) >= 1
     /\ \A i \in 1..Len(arg.blocks) : arg.blocks[i] \in CanonicalBlocks)
        => ret = [i \in 1..Len(arg.blocks) |-> ExpectedRecord(arg.blocks[i])]

\* C9 amended: the same, for blocks whose question and option texts are
\* trimmed and hold no run of whitespace other than a single blank.
CanonicalTextParses ==
    (/\ pc = "return"
     /\ arg.preamble = ""
     /\ Len(arg.blocks) >= 1
     /\ \A i \in 1..Len(arg.blocks) :
           arg.blocks[i] \in CanonicalBlocks /\ CleanBlock(arg.blocks[i]))
        => ret = [i \in 1..Len(arg.blocks) |-> ExpectedRecord(arg.blocks[i])]

\* C9 witness: two canonical blocks with different questions and answers gave
\* two records.
CanonicalPairParsed ==
    /\ pc = "return"
    /\ arg.preamble = ""
    /\ Len(arg.blocks) = 2
    /\ \A i \in 1..2 : arg.blocks[i] \in CanonicalBlocks /\ CleanBlock(arg.blocks[i])
    /\ arg.blocks[1].qline.q # arg.blocks[2].qline.q
    /\ arg.blocks[1].ans.letter # arg.blocks[2].ans.letter
    /\ Len(ret) = 2

\* a block as written says a question, exactly four distinct option letters
\* and an answer letter among them
ValidBlock(b) ==
    /\ b.qline.q # ""
    /\ Cardinality({b.layout[i].key : i \in 1..Len(b.layout)}) = 4
    /\ b.ans.letter \in {b.layout[i].key : i \in 1..Len(b.layout)}

\* C10: the records returned are those of the blocks that have a question,
\* four distinct option letters and an answer letter among them, in order;
\* the other blocks are dropped, and the text without them (and without the
\* leading line) parses to the same records.
BlockKeptIffValid ==
    pc = "return" =>
        LET kept == SelectSeq(arg.blocks, ValidBlock) IN
        /\ Len(ret) = Len(kept)
        /\ \A i \in 1..Len(kept) :
              /\ ret[i].question = kept[i].qline.q
              /\ ret[i].correct = kept[i].ans.letter
        /\ ret = parse_quiz_questions(TextOf("", kept))

\* C10 witness: a block of three options with a valid answer line was
\* dropped and the block after it was kept.
ThreeOptionBlockDropped ==
    /\ pc = "return"
    /\ Len(arg.blocks) = 2
    /\ arg.blocks[1].layout = ThreeOptions
    /\ arg.blocks[1].qline.q # ""
    /\ arg.blocks[1].ans.letter = "B"
    /\ ValidBlock(arg.blocks[2])
    /\ Len(ret) = 1
    /\ ret[1].question = arg.blocks[2].qline.q

(***************************************************************************)
(* Claims about generate_unique_questions.                                 *)
(***************************************************************************)
WellFormed(q) ==
    /\ DOMAIN q.options = OptionLetters
    /\ q.correct \in DOMAIN q.options

\* C2: every record generate_unique_questions returns has exactly the four
\* options A, B, C, D and a correct key that is one of its options.
ReturnedRecordsWellFormed ==
    pc = "return" => \A i \in 1..Len(ret) : WellFormed(ret[i])

\* C2 witness: the returned quiz holds a question of the bank, whose options
\* make_mcq put together, and the questions of the contextual fallback.
ReturnedBankAndFallback ==
    /\ pc = "return"
    /\ \E i \in 1..Len(ret) :
        /\ ret[i].question = "Who is the main character in the story?"
        /\ ret[i].options[ret[i].correct] = "Maya"
    /\ \E i \in 1..Len(ret) : ret[i].question = "Which phrase opens the story?"
    /\ \E i \in 1..Len(ret) : ret[i].question = "Approximately how long is this story?"
    /\ \A i \in 1..Len(ret) : WellFormed(ret[i])

\* C3: generate_unique_questions returns exactly num_questions_per_round
\* records, for every story and elements map.
ReturnsExactlyNumNeeded == pc = "return" => Len(ret) = arg.num_needed

\* C3 witness: the map is names = ["Maya"], objects = [], actions = [] and
\* nothing else; the bank gave two questions and the fallback the third.
MayaOnlyFilledUp ==
    /\ pc = "return"
    /\ arg.elements.has = {"names", "objects", "actions"}
    /\ arg.elements.names = <<"Maya">>
    /\ arg.elements.objects = <<>> /\ arg.elements.actions = <<>>
    /\ arg.num_needed = 3
    /\ calls[Contextual] = 1
    /\ Len(ret) = 3

\* the questions that ask which item the story does not mention
NotMentionedQuestions ==
    {"Which of the following is NOT mentioned in the story?",
     "Which item/place/character did the story NOT mention?",
     "Which of these is NOT mentioned in the story?"}

\* two questions test the same fact: the same question, with the same answer
SameFact(a, b) ==
    /\ a.question = b.question \/ {a.question, b.question} \subseteq NotMentionedQuestions
    /\ a.options[a.correct] = b.options[b.correct]

BoundedWork ==
    /\ \A g \in Range(candidate_generators) : calls[g] <= 1
    /\ Len(questions) <= arg.num_needed
    /\ pc = "return" => Len(ret) <= arg.num_needed

\* before the call has returned one of its steps can be taken: the guards of
\* Begin, RunGenerator, EndOfBank, FillContextual and Return
CanStep ==
    \/ pc = "call"
    \/ pc = "generators" /\ Len(questions) < arg.num_needed /\ remaining # <<>>
    \/ pc = "generators" /\ (remaining = <<>> \/ Len(questions) >= arg.num_needed)
    \/ pc = "fill" /\ Len(questions) < arg.num_needed
    \/ pc \in {"fill", "cleanup"} /\ (pc = "fill" => Len(questions) >= arg.num_needed)

\* what is left to do: the phases ahead, the generators left in the bank and
\* the questions still missing
PhasesAhead ==
    CASE pc = "call" -> 4
      [] pc = "generators" -> 3
      [] pc = "fill" -> 2
      [] pc = "cleanup" -> 1
      [] pc = "return" -> 0

Variant ==
    PhasesAhead * (Len(candidate_generators) + arg.num_needed + 1)
        + Len(remaining) + (arg.num_needed - Len(questions))

\* C5: generate_unique_questions terminates (it is never stuck before it
\* returns, and every step brings down what is left to do); each generator
\* is invoked at most once and the returned list never has more than
\* num_needed records.
TerminatesWithinBounds ==
    /\ [](BoundedWork /\ (pc # "return" => CanStep))
    /\ [][Variant' < Variant]_vars

\* C5 witness: the call returned after the whole bank ran, each generator
\* once, and the contextual fallback ran more than once.
ReturnedAfterWholeBank ==
    /\ pc = "return"
    /\ \A g \in Range(candidate_generators) : calls[g] = 1
    /\ calls[Contextual] > 1

(***************************************************************************)
(* Claims about the generators called one at a time.                       *)
(***************************************************************************)
\* the element a generator needs is absent: the list it reads is empty (or
\* missing from the map), or the story has fewer than 2 sentences
NoItems(elements, key) == Len(Get(elements, key, <<>>)) = 0

RequiredAbsent(gen, elements) ==
    CASE gen = "q_name" -> NoItems(elements, "names")
      [] gen = "q_action" -> NoItems(elements, "actions")
      [] gen = "q_object" -> NoItems(elements, "objects")
      [] gen = "q_place" -> NoItems(elements, "places")
      [] gen = "q_sequence" -> Len(Get(elements, "sentences", <<>>)) < 2
      [] gen = "q_true_false" ->
            \/ NoItems(elements, "names")
            \/ NoItems(elements, "objects") /\ NoItems(elements, "actions")
      [] gen = "q_not_mentioned" -> FALSE
      [] gen = "q_inference" ->
            \/ NoItems(elements, "names")
            \/ NoItems(elements, "sentences")
            \/ NoItems(elements, "actions")

\* C17 as stated: no generator raises, and a generator whose required
\* element is absent returns "no question"; the true/false generator called
\* with names = ["Maya"], objects = [], actions = [] returns "no question".
AbsentElementGivesNoQuestion ==
    pc = "return" =>
        /\ ret.status # "raise"
        /\ RequiredAbsent(arg.gen, arg.elements) => ret.status = "none"

(***************************************************************************)
(* Claims about extract_story_elements.                                    *)
(***************************************************************************)
\* the story the extraction works on: None counts as the empty story
StoryRead == IF arg = None THEN "" ELSE arg

\* C15 as stated: extract_story_elements returns at most 5 names, the
\* longest first, and when there are more than 5 distinct candidates the 5
\* longest are the ones kept.
NamesLongestFirst ==
    pc = "return" =>
        /\ Len(ret.names) <= 5
        /\ \A i, j \in 1..Len(ret.names) :
              i < j => Len(ret.names[i]) >= Len(ret.names[j])
        /\ \A left \in Range(combined_names(StoryRead)) \ Range(ret.names) :
              \A kept \in Range(ret.names) : Len(kept) >= Len(left)

\* the vocabulary entries that occur in the lower-cased story
Occurring(vocabulary) ==
    LET lowered == Lower(StoryRead) IN
    {vocabulary[i] : i \in {j \in 1..Len(vocabulary) : Contains(lowered, vocabulary[j])}}

\* C16: objects and places hold only vocabulary entries that occur in the
\* lower-cased story, at most 5 of them and all of them when at most 5
\* occur; the story about Maya gives the name Maya, the object key and the
\* place library; None and the empty story give empty lists and an empty
\* first_sentence.
ExtractedObjectsAndPlaces ==
    pc = "return" =>
        /\ LET occurring == Occurring(OBJECT_WORDS) IN
              /\ Range(ret.objects) \subseteq occurring
              /\ Len(ret.objects) <= 5
              /\ Cardinality(occurring) <= 5 => Range(ret.objects) = occurring
        /\ LET occurring == Occurring(PLACE_WORDS) IN
              /\ Range(ret.places) \subseteq occurring
              /\ Len(ret.places) <= 5
              /\ Cardinality(occurring) <= 5 => Range(ret.places) = occurring
        /\ arg = "Maya found a golden key in the old library." =>
              /\ "Maya" \in Range(ret.names)
              /\ "key" \in Range(ret.objects)
              /\ "library" \in Range(ret.places)
        /\ arg \in {None, ""} =>
              /\ ret.names = <<>> /\ ret.actions = <<>> /\ ret.objects = <<>>
              /\ ret.places = <<>> /\ ret.sentences = <<>>
              /\ ret.story_words = <<>>
              /\ ret.first_sentence = ""

\* C16 witness: the story with six objects in it (five are returned) after
\* the story about Maya, whose key and library are among the matches.
ExtractedFiveOfSix ==
    /\ pc = "return"
    /\ arg = "Maya found a golden key in the old library. "
                \o "The dog saw a map, a box, a gem and a cat in the forest"
    /\ Cardinality(Occurring(OBJECT_WORDS)) > 5
    /\ Len(ret.objects) = 5
    /\ ret.places \in {<<"library", "forest">>, <<"forest", "library">>}
    /\ ret.names = <<"Maya">>

(***************************************************************************)
(* Claims about story generation in a session.                             *)
(***************************************************************************)
\* the base generate_story is under way or has just returned
InBaseStory == local.op = "generate_story" /\ ~HasLevels(game)

\* a step of the base generate_story that calls the service and returns
\* the response
AcceptingStep ==
    /\ pc = "story_attempt" /\ pc' = "done"
    /\ local'.result = "accepted"

\* C11: the base generate_story calls the service at most 3 times; it
\* returns, truncated to the word limit, the first response that is
\* non-empty and has a new fingerprint (every attempt before it was empty,
\* failed or had a used fingerprint), calls the service no more after that,
\* returns a fallback story only after 3 such attempts, and always returns
\* a non-empty story.
StoryRetryContract ==
    /\ [](InBaseStory => local.service_calls <= 3)
    /\ [](InBaseStory /\ pc = "done" => ret # "")
    /\ [][pc = "story_attempt" =>
            /\ local'.service_calls <= local.service_calls + 1
            /\ CASE pc' = "story_attempt" ->
                      /\ local'.service_calls = local.service_calls + 1
                      /\ \/ local'.story = ""
                         \/ story_hash(local'.story) \in game.used_stories
                 [] AcceptingStep ->
                      /\ local'.service_calls = local.service_calls + 1
                      /\ local'.story # ""
                      /\ story_hash(local'.story) \notin game.used_stories
                      /\ ret' = _truncate_story(local'.story, game.story_word_limit)
                 [] OTHER ->
                      /\ pc' = "done" /\ local'.result = "fallback"
                      /\ local.service_calls = 3
                      /\ local'.service_calls = 3
                      /\ ret' \in Range(fallback_stories)]_vars
    /\ [][pc = "done" => pc' = "idle" /\ local' = NoLocals]_vars

\* C11 witness: the third response is the first fresh one; it is longer
\* than the word limit and is returned cut at the full stop.
StoryAcceptedAtThirdAttempt ==
    /\ pc = "done" /\ InBaseStory
    /\ local.result = "accepted" /\ local.service_calls = 3
    /\ local.story = LongResponse
    /\ ret = _truncate_story(LongResponse, 150)
    /\ Len(Split(ret)) = 60

\* C12: in the base generate_story a response is accepted only if its
\* fingerprint is not in used_stories at that moment; the acceptance adds
\* exactly that fingerprint; a rejected attempt, the fallback and the start
\* of the call leave used_stories as it is.
FingerprintsOnAcceptance ==
    [][InBaseStory' /\ pc' # "idle" =>
          IF AcceptingStep
          THEN /\ story_hash(local'.story) \notin game.used_stories
               /\ game'.used_stories =
                      game.used_stories \cup {story_hash(local'.story)}
          ELSE game'.used_stories = game.used_stories]_vars

\* C12 witness: in a later call of the session a non-empty response has
\* just been rejected because its fingerprint is in used_stories.
UsedFingerprintRejected ==
    /\ pc = "story_attempt"
    /\ local.attempt = 1
    /\ local.story = ShortStory
    /\ story_hash(ShortStory) \in game.used_stories

\* C13 as stated: no operation on the session ever removes a fingerprint
\* from used_stories.
UsedStoriesGrow == [][game.used_stories \subseteq game'.used_stories]_vars

\* C13: used_stories loses a fingerprint in no operation but reset_game,
\* which empties it.
UsedStoriesGrowUntilReset ==
    [][\/ game.used_stories \subseteq game'.used_stories
       \/ local'.op = "reset_game" /\ game'.used_stories = {}]_vars

\* C13 witness: two fingerprints recorded by story generation are still
\* there after an answer was submitted.
FingerprintsKept ==
    /\ pc = "done" /\ local.op = "submit_answer"
    /\ Cardinality(game.used_stories) = 2
    /\ game.questions_answered > 0

\* C19: the leveled generate_story calls the service exactly once; a
\* non-empty response is returned truncated to the word limit of the
\* current level, an empty or failed one gives a fallback story.
LeveledStoryOneCall ==
    pc = "done" /\ local.op = "generate_story" /\ HasLevels(game) =>
        /\ local.service_calls = 1
        /\ local.story # "" => ret = _truncate_story(local.story, game.story_word_limit)
        /\ local.story = "" => ret \in Range(fallback_stories)

\* C19 witness: at level 2 a response of 170 words is cut within the 125
\* words of the level.
LeveledStoryTruncated ==
    /\ pc = "done" /\ local.op = "generate_story" /\ HasLevels(game)
    /\ game.level = 2 /\ game.story_word_limit = 125
    /\ local.story = LongResponse
    /\ ret # LongResponse
    /\ Len(Split(ret)) <= 125

(***************************************************************************)
(* Claims about quiz generation.                                           *)
(***************************************************************************)
\* the number of records the parser gets out of a quiz text
ParsedCount(quiz_text) == Len(parse_quiz_questions(quiz_text))

\* C14: generate_quiz_questions calls the service at most 3 times; it
\* returns the parsed list of the first attempt whose parse has exactly
\* num_questions_per_round records (every attempt before it was empty,
\* failed or parsed to another number of records) and the synthesizer's list
\* after 3 such attempts; it is never stuck before it returns, and the list
\* returned has exactly num_questions_per_round records.
QuizRetryContract ==
    /\ [](local.op = "generate_quiz_questions" => local.service_calls <= 3)
    /\ [](pc \in {"call", "generators", "fill", "cleanup"} => CanStep)
    /\ [](pc = "done" =>
            /\ Len(ret) = game.num_questions_per_round
            /\ local.result = "parsed" => ret = parse_quiz_questions(local.quiz_text)
            /\ local.result = "fallback" =>
                  /\ local.service_calls = 3
                  /\ ret = CleanUp(questions, game.num_questions_per_round))
    /\ [][pc = "quiz_attempt" =>
            CASE pc' = "quiz_attempt" ->
                    /\ local'.service_calls = local.service_calls + 1
                    /\ ParsedCount(local'.quiz_text) # game.num_questions_per_round
              [] pc' = "done" ->
                    /\ local'.service_calls = local.service_calls + 1
                    /\ local'.result = "parsed"
                    /\ ParsedCount(local'.quiz_text) = game.num_questions_per_round
              [] OTHER ->
                    /\ pc' = "call" /\ local'.result = "fallback"
                    /\ local.service_calls = 3
                    /\ local'.service_calls = 3]_vars
    /\ [][pc # "quiz_attempt" /\ local.op = "generate_quiz_questions" =>
            local'.service_calls = local.service_calls]_vars

\* C14 witness: a game that asks 4 questions got 3 blocks at its third
\* attempt and returned 4 records made by the synthesizer.
QuizFromSynthesizer ==
    /\ pc = "done"
    /\ game.num_questions_per_round = 4
    /\ local.result = "fallback" /\ local.service_calls = 3
    /\ local.story = ShortStory
    /\ ParsedCount(local.quiz_text) = 3
    /\ Len(ret) = 4

(***************************************************************************)
(* Claims about the story stream.                                          *)
(***************************************************************************)
\* the stream has begun: the body of the generator has passed the service call
Streaming == local.op = "stream" /\ pc \in {"emit", "done"}

\* C20: generate_story_stream calls the service exactly once per stream,
\* however many chunks are emitted; the final story is decided before the
\* first chunk (the truncated response, or a fallback story when the
\* response is empty) and does not change while chunks are emitted; every
\* chunk is appended to what was emitted, and at the end of the stream the
\* concatenation of the chunks is the final story.
StreamContract ==
    /\ [](Streaming =>
            /\ local.service_calls = 1
            /\ local.final_story # ""
            /\ Len(local.emitted) <= Len(local.final_story)
            /\ local.emitted = SubSeq(local.final_story, 1, Len(local.emitted))
            /\ (local.emitted = "" /\ local.raw # "") =>
                   local.final_story = _truncate_story(local.raw, game.story_word_limit)
            /\ local.raw = "" => local.final_story \in Range(fallback_stories)
            /\ pc = "done" => local.emitted = local.final_story)
    /\ [][Streaming =>
            /\ local'.service_calls = local.service_calls
            /\ local'.raw = local.raw
            /\ local'.final_story = local.final_story
            /\ local'.emitted # local.emitted =>
                   /\ Len(ret') = 1
                   /\ local'.emitted = local.emitted \o ret']_vars

\* C20 witness: a stream of a leveled game has ended; the response of 170
\* words went out cut at the sentence end within the word limit, after one
\* service call and more than one chunk.
StreamOfTruncatedStory ==
    /\ pc = "done" /\ local.op = "stream"
    /\ HasLevels(game)
    /\ local.raw = LongResponse
    /\ local.emitted # LongResponse
    /\ local.emitted = _truncate_story(LongResponse, game.story_word_limit)
    /\ Len(local.emitted) > 1
    /\ local.service_calls = 1

(***************************************************************************)
(* Claims about make_mcq.                                                  *)
(***************************************************************************)
\* the text a generator passes to make_mcq as the correct one
CorrectText ==
    CASE arg.gen = "q_name" -> arg.elements.names[1]
      [] arg.gen = "q_action" -> arg.elements.actions[1]
      [] arg.gen = "q_object" -> arg.elements.objects[1]
      [] arg.gen = "q_place" -> arg.elements.places[1]

McqAnswered ==
    pc = "return" /\ arg.gen \in McqGenerators /\ ret.status = "question"

\* C21: in every character, action, object and setting question, whatever
\* the draw of the decoys and the order of the options, the option under
\* the record's `correct` key is the correct text itself, title-cased, and
\* never a decoy.
CorrectKeyHoldsCorrectText ==
    McqAnswered =>
        ret.qs[1].options[ret.qs[1].correct] = Title(CorrectText)

(***************************************************************************)
(* Claims about the answer indicators.                                     *)
(***************************************************************************)
\* C22: the `correct` letter of a parsed record is the letter of the answer
\* indicator of the highest priority in its block ('Correct Answer: X',
\* then 'Correct: X', then 'Answer: X'), and is not taken from the words of
\* the question or of the options.
LetterOfIndicator ==
    (pc = "return" /\ Len(arg.blocks) = 1 /\ arg.blocks[1].ans.letter # ""
        /\ Len(ret) = 1) =>
            ret[1].correct = arg.blocks[1].ans.letter

(***************************************************************************)
(* Claims about levels, scores and hints.                                  *)
(***************************************************************************)
\* C23: in every reachable state of a leveled game session, started by
\* start_game from the stored progress and followed by answers, level-up
\* checks, skips and resets, level never exceeds max_level (50).
LevelWithinMax ==
    HasLevels(game) => game.level <= game.max_level

\* C24: in every reachable state of a leveled session,
\* num_questions_per_round and story_word_limit are the values that belong
\* to the current level (those a session started at that level has, whether
\* the session started there, advanced to it or was reset) and stay within
\* the caps of 8 questions and 600 words.
ParametersByLevel ==
    HasLevels(game) =>
        /\ game.num_questions_per_round = 3 + ((game.level - 1) \div 5)
        /\ game.story_word_limit = 100 + (25 * (game.level - 1))
        /\ game.num_questions_per_round <= 8
        /\ game.story_word_limit <= 600

\* a check_level_up request of a leveled session has its response
LevelUpChecked ==
    pc = "done" /\ local.op = "check_level_up" /\ HasLevels(game)

\* C25: check_level_up reports leveled_up = true and inserts a progress
\* record only when the level goes up by exactly one and level_score is
\* reset to 0 in the same request; when the level does not go up it
\* reports leveled_up = false and records nothing.
LevelUpReportedOnlyOnAdvance ==
    LevelUpChecked =>
        /\ (ret.leveled_up \/ local.recorded) =>
               game.level = local.previous_level + 1 /\ game.level_score = 0
        /\ game.level = local.previous_level =>
               ~ret.leveled_up /\ ~local.recorded

\* a step that serves a skip_level request of a leveled session
SkipStep ==
    pc = "idle" /\ pc' = "done" /\ local'.op = "skip_level" /\ HasLevels(game)

\* C26: skip_level takes 2 hints only when the level goes up: a skip
\* request after which the level is what it was (fewer than 2 hints, or
\* the level already at max_level) leaves hints as they were.
SkipTakesHintsOnlyOnAdvance ==
    [][(SkipStep /\ game'.level = game.level) => game'.hints = game.hints]_vars

\* a step that serves a submit_answer request and answers with an error
FailedSubmitStep ==
    pc = "idle" /\ pc' = "done" /\ local'.op = "submit_answer" /\ ~ret'.success

\* C27: score <= questions_answered in every reachable state of a game
\* session, and a submit_answer request that ends in an error (database
\* unavailable, or a failing statement) leaves score, level_score and
\* questions_answered as they were.
ScoreWithinAnswered ==
    /\ [](game # NoGame => game.score <= game.questions_answered)
    /\ [][FailedSubmitStep =>
            /\ game'.score = game.score
            /\ game'.questions_answered = game.questions_answered
            /\ HasLevels(game) => game'.level_score = game.level_score]_vars

\* C28: hints never becomes negative in any reachable state of a game
\* session, under any order and any interleaving of use_hint and
\* skip_level requests served at the same time on the session.
HintsNeverNegative ==
    HasLevels(game) => game.hints >= 0

(***************************************************************************)
(* Claims about titles and common words in names.                          *)
(***************************************************************************)
\* the words of the story that have the shape of a name
NameWords == Range(potential_names(arg))

\* title and word stand in the story as two words, the one right after
\* the other
Adjacent(title, word) ==
    \/ StartsWith(arg, title \o " " \o word)
    \/ Contains(arg, " " \o title \o " " \o word)

\* the call has returned and the slice [:5] had nothing to cut
AllNamesReturned == pc = "return" /\ Len(potential_names(arg)) <= 5

\* C29: a known title (Dr, Mr, Ms, Mrs, Captain, Professor, ...) that is
\* followed in the story at once by a word with the shape of a name is
\* joined with it into one two-word name, and a common function word (The,
\* This, That, ...) is never a name on its own.
TitlesJoinedCommonWordsDropped ==
    AllNamesReturned =>
        /\ \A title \in titles, word \in NameWords :
              Adjacent(title, word) => (title \o " " \o word) \in Range(ret.names)
        /\ \A name \in Range(ret.names) : name \notin common_words

(***************************************************************************)
(* Claims about create_contextual_question.                                *)
(***************************************************************************)
\* what the call reads off its arguments
FirstSentenceWords ==
    Split(IF "first_sentence" \in arg.elements.has THEN arg.elements.first_sentence ELSE "")

FirstPhrase ==
    Lower(Join(SubSeq(FirstSentenceWords, 1,
                      IF Len(FirstSentenceWords) < 4 THEN Len(FirstSentenceWords) ELSE 4),
               " "))

StoryWordCount ==
    IF "story_words" \in arg.elements.has THEN Len(arg.elements.story_words) ELSE 0

SomethingNotMentioned ==
    \E w \in Range(possible_not) :
        ~Contains(Lower(IF "story_words" \in arg.elements.has
                        THEN Join(arg.elements.story_words, " ") ELSE ""), w)

\* the question of the first strategy that applies after the opening phrase
AfterOpening ==
    IF StoryWordCount > 40 THEN "Approximately how long is this story?"
    ELSE IF SomethingNotMentioned THEN "Which of these is NOT mentioned in the story?"
    ELSE "True or False: The story included a surprising event."

\* a step in which create_contextual_question is called and returns
ContextualCall == pc = "call" /\ pc' = "return"

\* the call returned a record with this question
Asked(question) ==
    /\ ret'.status = "question"
    /\ Len(ret'.qs) = 1
    /\ ret'.qs[1].question = question

\* C30 as stated: the opening phrase is asked about whenever there is a
\* first sentence and its phrase is not in the used-elements set.
StrategyOrderAsStated ==
    [][ContextualCall =>
          IF Len(FirstSentenceWords) > 0 /\ FirstPhrase \notin used_elements
          THEN Asked("Which phrase opens the story?")
               /\ used_elements' = used_elements \cup {FirstPhrase}
          ELSE Asked(AfterOpening) /\ used_elements' = used_elements]_vars

\* C30: create_contextual_question always returns a record, that of the
\* first strategy that applies in the order: the opening phrase (the first
\* sentence has more than 2 words and its phrase is not in the
\* used-elements set, to which it is then added), the length estimate
\* (more than 40 words), not-mentioned, the generic true/false question
\* with the answer True under A; no earlier strategy that applies is
\* skipped.
StrategyOrder ==
    [][ContextualCall =>
          /\ IF Len(FirstSentenceWords) > 2 /\ FirstPhrase \notin used_elements
             THEN Asked("Which phrase opens the story?")
                  /\ used_elements' = used_elements \cup {FirstPhrase}
             ELSE Asked(AfterOpening) /\ used_elements' = used_elements
          /\ ret'.qs[1].correct \in DOMAIN ret'.qs[1].options
          /\ ret'.qs[1].question = "True or False: The story included a surprising event."
                => ret'.qs[1].correct = "A" /\ ret'.qs[1].options["A"] = "True"]_vars

\* C30 witness: the first sentence has one word, so the opening phrase is
\* not asked about though it is unused; the story has 20 words and
\* mentions all nine words, and the generic question is returned.
GenericAfterShortOpening ==
    /\ pc = "return"
    /\ arg.elements.first_sentence = "Look"
    /\ "look" \notin used_elements
    /\ ret.status = "question"
    /\ ret.qs[1].question = "True or False: The story included a surprising event."
    /\ ret.qs[1].correct = "A"

====
